---- MODULE Spec2Model ----
(***************************************************************************)
(* MongoDB session manager: the session document store                     *)
(* (MongoDBSessionRepository), the session handle (MongoDBSessionManager)  *)
(* and its hook dispatch.                                                  *)
(*                                                                         *)
(* One document per session.  Every update_one / insert_one / find_one of  *)
(* the driver is one atomic step; an operation that makes a find_one and   *)
(* then an update_one is two steps, and other callers may run in between.  *)
(***************************************************************************)
EXTENDS Integers, Sequences, FiniteSets, TLC

VARIABLES
    docs,       \* the collection: session_id -> session document
    now,        \* the wall clock read by datetime.now(UTC)
    hooks,      \* the hooks installed on the session handle, and the number of
                \* notifications they have scheduled that are not delivered yet
    h,          \* the handle's metadata / feedback call in progress
    pre,        \* the collection as it was when that call started
    pc,         \* per caller: the repository operation it is inside
    pool,       \* MongoDBConnectionPool: the class attributes and every
                \* MongoClient it has created
    tpc,        \* per thread: the pool call it is inside and its locals
    factories,  \* the MongoDBSessionManagerFactory objects constructed so far
    global_factory, \* the module attribute _global_factory (0 is None)
    fpc,        \* per thread: the factory function it is inside
    comps,      \* the repositories and session handles constructed so far
    heap,       \* the MongoClient objects created outside the pool
    req,        \* the last request the session viewer received
    resp,       \* its response to that request
    law,         \* a caller running two metadata calls in a row: the
                \* metadata it started from and the arguments of its calls
    out,        \* the last call of a read or tool operation and what it returned
    cache       \* SessionMetadataCache: max_size, ttl_seconds, _cache

NoOut == [op |-> "none"]

fvars == <<factories, global_factory, fpc, comps, heap>>
vvars == <<req, resp, out, cache>>

vars == <<docs, now, hooks, h, pre, pc, pool, tpc, fvars, vvars, law>>

(***************************************************************************)
(* Bounds of the model.                                                    *)
(***************************************************************************)
MaxClock == 1
MaxFeedbacks == 1
MaxPending == 1

HandleSession == "s1"
Apps == {"app1", "app2"}
Passwords == {"pw1", "pw2"}

(***************************************************************************)
(* Metadata.  A metadata key is a dotted path: "k1" is <<"k1">> and "k1.x" *)
(* is <<"k1", "x">>.  The stored metadata maps each top-level key to a     *)
(* value that is absent, a scalar, or an embedded document.                *)
(***************************************************************************)
MKeys == {"k1", "k2"}
SubKeys == {"x"}
Absent == "absent"
NewVals == {"v1", "v2"}
Paths == {<<"k1">>, <<"k2">>, <<"k1", "x">>}

NoSub == [s \in SubKeys |-> Absent]
AbsentVal == [t |-> "absent", v |-> "", sub |-> NoSub]
ScalarVal(x) == [t |-> "scalar", v |-> x, sub |-> NoSub]
DocVal(sub) == [t |-> "doc", v |-> "", sub |-> sub]

EmptyMap == [p \in {} |-> ""]
Mappings == UNION {[S -> NewVals] : S \in SUBSET Paths}
KeyLists == SUBSET Paths

\* The top-level keys an update or delete request names, directly or as the
\* first segment of a dotted path.
TopOf(ps) == {p[1] : p \in ps}
Direct(ps) == {p[1] : p \in {q \in ps : Len(q) = 1}}

\* The driver rejects a request that names a path and a prefix of it
\* (WriteError: "would create a conflict").
PathConflict(ps) == \E p \in ps, q \in ps : Len(p) = 1 /\ Len(q) = 2 /\ q[1] = p[1]

\* $set cannot create a field inside a scalar (WriteError).
SetBlocked(meta, ps) == \E p \in ps : Len(p) = 2 /\ meta[p[1]].t = "scalar"

\* {"$set": {"metadata.<key>": value, ...}} applied to the metadata subtree.
SetMetadataWhole(meta, M) ==
    [k \in MKeys |-> IF <<k>> \in DOMAIN M THEN ScalarVal(M[<<k>>]) ELSE AbsentVal]

SetMetadataKeep(meta, M) ==
    [k \in MKeys |->
        IF meta[k].t = "scalar" THEN meta[k]
        ELSE IF <<k>> \in DOMAIN M THEN ScalarVal(M[<<k>>])
        ELSE IF \E s \in SubKeys : <<k, s>> \in DOMAIN M
             THEN DocVal([s \in SubKeys |->
                     IF <<k, s>> \in DOMAIN M THEN M[<<k, s>>]
                     ELSE IF meta[k].t = "doc" THEN meta[k].sub[s] ELSE Absent])
             ELSE meta[k]]

SetMetadata(meta, M) ==
    [k \in MKeys |->
        IF <<k>> \in DOMAIN M THEN ScalarVal(M[<<k>>])
        ELSE IF \E s \in SubKeys : <<k, s>> \in DOMAIN M
             THEN DocVal([s \in SubKeys |->
                     IF <<k, s>> \in DOMAIN M THEN M[<<k, s>>]
                     ELSE IF meta[k].t = "doc" THEN meta[k].sub[s] ELSE Absent])
             ELSE meta[k]]

\* {"$unset": {"metadata.<key>": "", ...}} applied to the metadata subtree.
UnsetMetadataAll(meta, K) ==
    [k \in MKeys |-> IF K = {} THEN meta[k] ELSE AbsentVal]

UnsetMetadataNothing(meta, K) == meta

UnsetMetadata(meta, K) ==
    [k \in MKeys |->
        IF <<k>> \in K THEN AbsentVal
        ELSE IF meta[k].t = "doc"
             THEN DocVal([s \in SubKeys |->
                     IF <<k, s>> \in K THEN Absent ELSE meta[k].sub[s]])
             ELSE meta[k]]

(***************************************************************************)
(* The session document.                                                   *)
(***************************************************************************)
NoAgents == [a \in {} |-> 0]

SessionDoc(sid, app, pwd, fields, t1, t2) ==
    [ session_id |-> sid,
      application_name |-> app,
      session_viewer_password |-> pwd,
      created_at |-> t1,
      updated_at |-> t2,
      agents |-> NoAgents,
      metadata |-> [k \in MKeys |-> IF k \in fields THEN ScalarVal("") ELSE AbsentVal],
      feedbacks |-> <<>> ]

Exists(d, sid) == sid \in DOMAIN d

\* insert_one: DuplicateKeyError when the _id exists, and nothing is written.
insert_one_replacing(d, sid, doc) ==
    [s \in DOMAIN d \cup {sid} |-> IF s = sid THEN doc ELSE d[s]]

insert_one(d, sid, doc) ==
    IF Exists(d, sid) THEN d
    ELSE [s \in DOMAIN d \cup {sid} |-> IF s = sid THEN doc ELSE d[s]]

create_session_overwriting(d, sid, app, pwd, fields, t1, t2) ==
    insert_one_replacing(d, sid, SessionDoc(sid, app, pwd, fields, t1, t2))

create_session(d, sid, app, pwd, fields, t1, t2) ==
    insert_one(d, sid, SessionDoc(sid, app, pwd, fields, t1, t2))

\* What create_session raises: the DuplicateKeyError of insert_one is a
\* PyMongoError, logged and re-raised.
create_session_outcome(d, sid) == IF Exists(d, sid) THEN "DuplicateKeyError" ELSE "ok"

\* update_one({"_id": sid}, u): no document matches a missing sid.
UpdateOne(d, sid, newdoc) ==
    IF Exists(d, sid) THEN [d EXCEPT ![sid] = newdoc] ELSE d

update_metadata(d, sid, M) ==
    IF Exists(d, sid)
    THEN UpdateOne(d, sid, [d[sid] EXCEPT !.metadata = SetMetadata(@, M)])
    ELSE d

update_metadata_rejected(d, sid, M) ==
    \/ PathConflict(DOMAIN M)
    \/ Exists(d, sid) /\ SetBlocked(d[sid].metadata, DOMAIN M)

delete_metadata(d, sid, K) ==
    IF Exists(d, sid)
    THEN UpdateOne(d, sid, [d[sid] EXCEPT !.metadata = UnsetMetadata(@, K)])
    ELSE d

delete_metadata_rejected(d, sid, K) == PathConflict(K)

Ratings == {"up", "none"}
FeedbackDoc(rating, t) == [rating |-> rating, created_at |-> t]

add_feedback_prepend(d, sid, rating, t) ==
    IF Exists(d, sid)
    THEN UpdateOne(d, sid, [d[sid] EXCEPT !.feedbacks = <<FeedbackDoc(rating, t)>> \o @,
                                          !.updated_at = t])
    ELSE d

add_feedback(d, sid, rating, t) ==
    IF Exists(d, sid)
    THEN UpdateOne(d, sid, [d[sid] EXCEPT !.feedbacks = Append(@, FeedbackDoc(rating, t)),
                                          !.updated_at = t])
    ELSE d

\* get_feedbacks: find_one with the projection {"feedbacks": 1}; [] when no
\* document has the session_id.
get_feedbacks(d, sid) == IF Exists(d, sid) THEN d[sid].feedbacks ELSE <<>>

get_metadata(d, sid) == IF Exists(d, sid) THEN d[sid].metadata ELSE [k \in MKeys |-> AbsentVal]

(***************************************************************************)
(* The session handle and its hooks.                                       *)
(*                                                                         *)
(* A hook is hook(original_func, action, session_id, **payload).  The      *)
(* kinds of hook modelled:                                                 *)
(*   "none"   no hook installed                                            *)
(*   "notify" the shipped wrappers (metadata_hook_wrapper,                 *)
(*            feedback_hook_wrapper): call original_func, then hand the    *)
(*            notification to a task or a daemon thread                    *)
(*   "user"   a user hook (audit, validation): may raise before calling    *)
(*            original_func, or after it returned                          *)
(***************************************************************************)
HookKinds == {"none", "notify", "user"}
WriteOps == {"update", "delete", "add"}

HookFor(op) == IF op = "add" THEN hooks.feedback ELSE hooks.metadata

Idle == [ phase |-> "idle", op |-> "get", M |-> EmptyMap, K |-> {}, rating |-> "none",
          entered |-> 0, wrote |-> "no", t |-> 0, notified |-> 0,
          hookRaised |-> "no", outcome |-> "none" ]

\* The repository call behind original_func, as a function of the collection.
Applied(d, call) ==
    CASE call.op = "update" -> update_metadata(d, HandleSession, call.M)
      [] call.op = "delete" -> delete_metadata(d, HandleSession, call.K)
      [] call.op = "add"    -> add_feedback(d, HandleSession, call.rating, call.t)
      [] OTHER              -> d

Rejected(d, call) ==
    CASE call.op = "update" -> update_metadata_rejected(d, HandleSession, call.M)
      [] call.op = "delete" -> delete_metadata_rejected(d, HandleSession, call.K)
      [] OTHER              -> FALSE

\* wrapped_update / wrapped_get / wrapped_delete / wrapped_add:
\* "return hook(original, action, self.session_id, ...)": what the hook
\* raises reaches the caller.
WrappedOutcomeSwallow(hookOutcome) == "ok"

WrappedOutcome(hookOutcome) == hookOutcome

\* The shipped wrappers schedule the notification on the line after
\* "result = original_func(...)": only when that call returned.
DispatchesAlways(kind, op, wrote) == kind = "notify" /\ op \in WriteOps

Dispatches(kind, op, wrote) == kind = "notify" /\ op \in WriteOps /\ wrote = "ok"

\* loop.create_task(...) / threading.Thread(target=run_hook, daemon=True)
\* .start(): the delivery is handed over and runs on its own.
DeliverInline(pending) == pending

Schedule(pending) == pending + 1

Call(op, M, K, rating) ==
    /\ h.phase = "idle"
    /\ (HookFor(op) = "notify" /\ op \in WriteOps) => hooks.pending < MaxPending
    /\ op = "update" => M \in Mappings /\ K = {} /\ rating = "none"
    /\ op = "delete" => M = EmptyMap /\ rating = "none"
    /\ op = "get" => M = EmptyMap /\ K = {} /\ rating = "none"
    /\ op = "add" => M = EmptyMap /\ K = {} /\ Len(docs[HandleSession].feedbacks) < MaxFeedbacks
    /\ h' = [Idle EXCEPT !.phase = IF HookFor(op) = "none" THEN "orig" ELSE "hook",
                         !.op = op, !.M = M, !.K = K, !.rating = rating,
                         !.entered = IF HookFor(op) = "none" THEN 0 ELSE 1]
    /\ pre' = docs
    /\ UNCHANGED <<docs, now, hooks, pc, pool, tpc, fvars, vvars, law>>

\* The hook body up to its call of original_func.
HookBefore ==
    /\ h.phase = "hook"
    /\ \/ h' = [h EXCEPT !.phase = "orig"]
       \/ /\ HookFor(h.op) = "user"
          /\ h' = [h EXCEPT !.phase = "done", !.hookRaised = "before",
                            !.outcome = WrappedOutcome("HookError")]
    /\ UNCHANGED <<docs, now, hooks, pre, pc, pool, tpc, fvars, vvars, law>>

\* original_func: the repository call.  It raises PyMongoError when the
\* server is unreachable or rejects the update; nothing is written then.
Original ==
    /\ h.phase = "orig"
    /\ \E dbOk \in BOOLEAN :
        IF dbOk /\ ~Rejected(docs, h)
        THEN /\ docs' = Applied(docs, [h EXCEPT !.t = now])
             /\ h' = [h EXCEPT !.wrote = "ok", !.t = now,
                               !.phase = IF HookFor(h.op) = "none" THEN "done" ELSE "after",
                               !.outcome = IF HookFor(h.op) = "none" THEN "ok" ELSE "none"]
        ELSE /\ docs' = docs
             /\ h' = [h EXCEPT !.wrote = "failed", !.phase = "done",
                               !.notified = IF Dispatches(HookFor(h.op), h.op, "failed")
                                            THEN @ + 1 ELSE @,
                               !.outcome = IF HookFor(h.op) = "none" THEN "PyMongoError"
                                           ELSE WrappedOutcome("PyMongoError")]
    /\ UNCHANGED <<now, hooks, pre, pc, pool, tpc, fvars, vvars, law>>

\* The hook body after original_func returned.
HookAfter ==
    /\ h.phase = "after"
    /\ \/ /\ h' = [h EXCEPT !.phase = "done",
                            !.notified = IF Dispatches(HookFor(h.op), h.op, h.wrote)
                                         THEN @ + 1 ELSE @,
                            !.outcome = WrappedOutcome("ok")]
          /\ hooks' = [hooks EXCEPT !.pending = IF Dispatches(HookFor(h.op), h.op, h.wrote)
                                                THEN Schedule(@) ELSE @]
       \/ /\ HookFor(h.op) = "user"
          /\ h' = [h EXCEPT !.phase = "done", !.hookRaised = "after",
                            !.outcome = WrappedOutcome("HookError")]
          /\ hooks' = hooks
    /\ UNCHANGED <<docs, now, pre, pc, pool, tpc, fvars, vvars, law>>

\* The task or daemon thread started by a shipped wrapper sends its
\* notification (on_metadata_change / on_feedback_add).
Deliver ==
    /\ hooks.pending > 0
    /\ hooks' = [hooks EXCEPT !.pending = @ - 1]
    /\ UNCHANGED <<docs, now, h, pre, pc, pool, tpc, fvars, vvars, law>>

Return ==
    /\ h.phase = "done"
    /\ h' = Idle
    /\ pre' = docs
    /\ UNCHANGED <<docs, now, hooks, pc, pool, tpc, fvars, vvars, law>>

Tick ==
    /\ now < MaxClock
    /\ now' = now + 1
    /\ UNCHANGED <<docs, hooks, h, pre, pc, pool, tpc, fvars, vvars, law>>

(***************************************************************************)
(* Agents and messages.                                                    *)
(*                                                                         *)
(* An agent block is {agent_data, messages, created_at, updated_at}.  A    *)
(* dotted-path $set or $push on agents.<id>.<field> creates the fields it  *)
(* names and nothing else, so a block can lack fields: a timestamp that is *)
(* absent is NoTime, a messages field that is absent has has_messages      *)
(* FALSE, a part of agent_data that is absent is 0.                        *)
(***************************************************************************)
MaxMsgs == 2

Callers == {"c1", "c2"}
Agents == {"a1"}
StoreSessions == {"s1"}
MsgIds == {1, 2}
NoTime == -1

NoData == [state |-> 0, model |-> 0, system_prompt |-> 0]

\* session_agent.__dict__: the SDK state, without model and system_prompt.
AgentData(st) == [state |-> st, model |-> 0, system_prompt |-> 0]

NoBlock == [agent_data |-> NoData, messages |-> <<>>, has_messages |-> FALSE,
            created_at |-> NoTime, updated_at |-> NoTime]

\* A message entry; event_loop_metrics is elm (0: the field is absent).
\* An array position padded by the server holds NullEntry.
Entry(mid, content, cat, uat, elm) ==
    [kind |-> "msg", message_id |-> mid, content |-> content,
     created_at |-> cat, updated_at |-> uat, elm |-> elm]
NullEntry ==
    [kind |-> "null", message_id |-> 0, content |-> "", created_at |-> NoTime,
     updated_at |-> NoTime, elm |-> 0]

HasAgent(d, sid, aid) == Exists(d, sid) /\ aid \in DOMAIN d[sid].agents

BlockOf(d, sid, aid) == IF HasAgent(d, sid, aid) THEN d[sid].agents[aid] ELSE NoBlock

\* update_one with "agents.<aid>": the block is created when it is missing.
PutBlock(d, sid, aid, block, t) ==
    [d EXCEPT ![sid] =
        [@ EXCEPT !.agents = [a \in DOMAIN @ \cup {aid} |-> IF a = aid THEN block ELSE @[a]],
                  !.updated_at = IF t = NoTime THEN @ ELSE t]]

\* create_agent: {"$set": {"agents.<id>": agent_doc, "updated_at": now}}.
FreshBlock(old, st, t) ==
    [agent_data |-> AgentData(st), messages |-> <<>>, has_messages |-> TRUE,
     created_at |-> t, updated_at |-> t]

create_agent(d, sid, aid, st, t) ==
    IF Exists(d, sid) THEN PutBlock(d, sid, aid, FreshBlock(BlockOf(d, sid, aid), st, t), t) ELSE d

\* update_agent, the find_one: the created_at to keep, or now.
update_agent_read(d, sid, aid, t) ==
    IF HasAgent(d, sid, aid) /\ d[sid].agents[aid].created_at # NoTime
    THEN d[sid].agents[aid].created_at
    ELSE t

\* update_agent, the update_one: $set of agent_data, updated_at, created_at.
UpdatedBlock(old, st, cat, t) ==
    [old EXCEPT !.agent_data = AgentData(st), !.updated_at = t, !.created_at = cat]

update_agent_write(d, sid, aid, st, cat, t) ==
    IF Exists(d, sid) THEN PutBlock(d, sid, aid, UpdatedBlock(BlockOf(d, sid, aid), st, cat, t), t) ELSE d

\* create_message: {"$push": {"agents.<id>.messages": m}, "$set": {...updated_at}}.
PushOverwrite(msgs, e) == <<e>>

Push(msgs, e) == Append(msgs, e)

create_message(d, sid, aid, mid, content, t) ==
    IF Exists(d, sid)
    THEN PutBlock(d, sid, aid,
             [BlockOf(d, sid, aid) EXCEPT !.messages = Push(@, Entry(mid, content, t, t, 0)),
                                          !.has_messages = TRUE,
                                          !.updated_at = t], t)
    ELSE d

\* The position of the first entry with this message_id, or 0.
RECURSIVE IndexOfFrom(_, _, _)
IndexOfFrom(msgs, mid, i) ==
    IF i > Len(msgs) THEN 0
    ELSE IF msgs[i].kind = "msg" /\ msgs[i].message_id = mid THEN i
    ELSE IndexOfFrom(msgs, mid, i + 1)

IndexOf(msgs, mid) == IndexOfFrom(msgs, mid, 1)

\* The loop of update_message raises on a padded (null) entry it meets
\* before the match: msg.get on None.
NullBefore(msgs, mid) ==
    \E i \in 1..Len(msgs) :
        /\ msgs[i].kind = "null"
        /\ (IndexOf(msgs, mid) = 0 \/ i < IndexOf(msgs, mid))

\* $set of "messages.<index>": replaces that position; the server pads a
\* shorter array with nulls.
SetAt(msgs, i, e) ==
    [j \in 1..(IF i > Len(msgs) THEN i ELSE Len(msgs)) |->
        IF j = i THEN e ELSE IF j <= Len(msgs) THEN msgs[j] ELSE NullEntry]

\* update_message, the update_one: the entry built by the find replaces
\* position idx.
ReplaceAt(msgs, idx, e) == SetAt(msgs, idx, e)

update_message_write(d, sid, aid, idx, e, t) ==
    IF Exists(d, sid)
    THEN PutBlock(d, sid, aid,
             [BlockOf(d, sid, aid) EXCEPT !.messages = ReplaceAt(@, idx, e),
                                          !.has_messages = TRUE,
                                          !.updated_at = t], t)
    ELSE d

\* _update_last_message_metrics, the update_one: the positional $ is the
\* first entry whose message_id matches the filter.
SetMetricsAt(msgs, mid) ==
    IF IndexOf(msgs, mid) = 0 THEN msgs
    ELSE [msgs EXCEPT ![IndexOf(msgs, mid)].elm = 1]

update_last_message_metrics_write(d, sid, aid, mid) ==
    IF HasAgent(d, sid, aid) /\ IndexOf(d[sid].agents[aid].messages, mid) # 0
    THEN PutBlock(d, sid, aid,
             [d[sid].agents[aid] EXCEPT !.messages = SetMetricsAt(@, mid)], NoTime)
    ELSE d

\* _capture_agent_config: $set of agent_data.model and agent_data.system_prompt.
capture_agent_config_skipped(d, sid, aid, model, prompt) == d

capture_agent_config(d, sid, aid, model, prompt) ==
    IF Exists(d, sid) /\ (model # 0 \/ prompt # 0)
    THEN PutBlock(d, sid, aid,
             [BlockOf(d, sid, aid) EXCEPT
                 !.agent_data.model = IF model # 0 THEN model ELSE @,
                 !.agent_data.system_prompt = IF prompt # 0 THEN prompt ELSE @], NoTime)
    ELSE d

\* update_agent_config: $set of "agents.<id>.agent_data.model" and
\* "agents.<id>.agent_data.system_prompt", each only when it is not None (0);
\* no update_one when both are None, no document matched when the session
\* is missing (ValueError).
update_agent_config_both(d, sid, aid, model, prompt) ==
    IF Exists(d, sid) /\ (model # 0 \/ prompt # 0)
    THEN PutBlock(d, sid, aid,
             [BlockOf(d, sid, aid) EXCEPT !.agent_data.model = model,
                                          !.agent_data.system_prompt = prompt], NoTime)
    ELSE d

update_agent_config(d, sid, aid, model, prompt) ==
    IF Exists(d, sid) /\ (model # 0 \/ prompt # 0)
    THEN PutBlock(d, sid, aid,
             [BlockOf(d, sid, aid) EXCEPT
                 !.agent_data.model = IF model # 0 THEN model ELSE @,
                 !.agent_data.system_prompt = IF prompt # 0 THEN prompt ELSE @], NoTime)
    ELSE d

\* What update_agent_config raises: nothing when no field is given (the
\* early return), ValueError when update_one matched no document, which is
\* the case of a missing session only.
update_agent_config_outcome(d, sid, aid, model, prompt) ==
    IF model = 0 /\ prompt = 0 THEN "ok"
    ELSE IF ~Exists(d, sid) THEN "ValueError"
    ELSE "ok"

\* SessionMessage(**filtered_msg_data): the stored entry without
\* event_loop_metrics.
SessionMessage(e) ==
    [message_id |-> e.message_id, content |-> e.content,
     created_at |-> e.created_at, updated_at |-> e.updated_at]

\* messages.sort(key=created_at): a stable sort, entries with equal keys
\* keep their stored order.
InsertByCreatedAt(srt, e) ==
    LET k == Cardinality({i \in 1..Len(srt) : srt[i].created_at <= e.created_at})
    IN SubSeq(srt, 1, k) \o <<e>> \o SubSeq(srt, k + 1, Len(srt))

RECURSIVE SortByCreatedAt(_)
SortByCreatedAt(msgs) ==
    IF msgs = <<>> THEN <<>>
    ELSE InsertByCreatedAt(SortByCreatedAt(SubSeq(msgs, 1, Len(msgs) - 1)), msgs[Len(msgs)])

\* messages[offset : offset + limit], messages[offset:] when limit is None
\* (NoLimit), for offset >= 0 and limit >= 0.
NoLimit == -1

Slice(msgs, offset, limit) ==
    LET last == IF limit = NoLimit \/ offset + limit > Len(msgs) THEN Len(msgs)
                ELSE offset + limit
    IN IF offset + 1 > last THEN <<>> ELSE SubSeq(msgs, offset + 1, last)

\* The sort key is read with x.get: AttributeError on a null entry.
list_messages_outcome(d, sid, aid) ==
    IF HasAgent(d, sid, aid) /\ \E i \in 1..Len(d[sid].agents[aid].messages) :
                                    d[sid].agents[aid].messages[i].kind = "null"
    THEN "AttributeError" ELSE "ok"

list_messages_as_stored(d, sid, aid, limit, offset) ==
    IF ~HasAgent(d, sid, aid) THEN <<>>
    ELSE LET page == Slice(d[sid].agents[aid].messages, offset, limit)
         IN [i \in 1..Len(page) |-> SessionMessage(page[i])]

list_messages(d, sid, aid, limit, offset) ==
    IF ~HasAgent(d, sid, aid) THEN <<>>
    ELSE LET page == Slice(SortByCreatedAt(d[sid].agents[aid].messages), offset, limit)
         IN [i \in 1..Len(page) |-> SessionMessage(page[i])]

\* The repository writes, and which of them raise ValueError("Session ...
\* not found") / ValueError("Agent ... not found in session ...") when no
\* document has the session_id: those that check result.matched_count or
\* the document they read.  The metadata and feedback writes check nothing.
RepoWrites == {"create_agent", "update_agent", "create_message", "update_message",
               "update_metadata", "delete_metadata", "add_feedback"}

RaisesNotFound(d, sid, op) ==
    /\ ~Exists(d, sid)
    /\ op \in {"create_agent", "update_agent", "create_message", "update_message"}

(***************************************************************************)
(* Callers of the store.  A caller is idle or between the find_one and the *)
(* update_one of an operation.                                             *)
(***************************************************************************)
IdlePc == [op |-> "idle", sid |-> "s1", aid |-> "a1", mode |-> "none", app |-> "none",
           st |-> 0, mid |-> 0, idx |-> 0, cat |-> NoTime, uat |-> NoTime,
           rating |-> "none"]

\* MongoDBSessionManager.__init__ -> RepositorySessionManager.__init__:
\* read_session, and create_session when there is none (a handle on a
\* session that exists reads it and writes nothing).
ConstructRead(c, sid, app) ==
    /\ pc[c].op = "idle"
    /\ ~Exists(docs, sid)
    /\ pc' = [pc EXCEPT ![c] = [IdlePc EXCEPT !.op = "construct", !.sid = sid, !.app = app]]
    /\ UNCHANGED <<docs, now, hooks, h, pre, pool, tpc, fvars, vvars, law>>

ConstructCreate(c, pwd) ==
    /\ pc[c].op = "construct"
    /\ docs' = create_session(docs, pc[c].sid, pc[c].app, pwd, {}, now, now)
    /\ pc' = [pc EXCEPT ![c] = IF create_session_outcome(docs, pc[c].sid) = "ok" THEN IdlePc
                               ELSE [pc[c] EXCEPT !.op = "conflict"]]
    /\ UNCHANGED <<now, hooks, h, pre, pool, tpc, fvars, vvars, law>>

CreateAgent(c, sid, aid, st) ==
    /\ pc[c].op = "idle"
    /\ ~RaisesNotFound(docs, sid, "create_agent")
    /\ docs' = create_agent(docs, sid, aid, st, now)
    /\ UNCHANGED <<now, hooks, h, pre, pc, pool, tpc, fvars, vvars, law>>

\* update_agent; mode "sync0" / "sync1" is sync_agent, which goes on to the
\* metrics (latencyMs > 0) and to the capture of model and system_prompt.
UpdateAgentRead(c, sid, aid, st, mode) ==
    /\ pc[c].op = "idle"
    /\ pc' = [pc EXCEPT ![c] = [IdlePc EXCEPT !.op = "update_agent", !.sid = sid, !.aid = aid,
                                              !.st = st, !.mode = mode,
                                              !.cat = update_agent_read(docs, sid, aid, now)]]
    /\ UNCHANGED <<docs, now, hooks, h, pre, pool, tpc, fvars, vvars, law>>

UpdateAgentWrite(c) ==
    /\ pc[c].op = "update_agent"
    /\ docs' = update_agent_write(docs, pc[c].sid, pc[c].aid, pc[c].st, pc[c].cat, now)
    /\ pc' = [pc EXCEPT ![c] =
                 CASE RaisesNotFound(docs, pc[c].sid, "update_agent") -> IdlePc
                   [] pc[c].mode = "sync1" -> [pc[c] EXCEPT !.op = "metrics_find"]
                   [] pc[c].mode = "sync0" -> [pc[c] EXCEPT !.op = "capture"]
                   [] OTHER -> IdlePc]
    /\ UNCHANGED <<now, hooks, h, pre, pool, tpc, fvars, vvars, law>>

\* _update_last_message_metrics, the find_one with $slice -1.
MetricsFind(c) ==
    /\ pc[c].op = "metrics_find"
    /\ LET b == BlockOf(docs, pc[c].sid, pc[c].aid)
       IN pc' = [pc EXCEPT ![c] =
                    IF HasAgent(docs, pc[c].sid, pc[c].aid) /\ Len(b.messages) > 0
                    THEN IF b.messages[Len(b.messages)].kind = "null"
                         THEN IdlePc
                         ELSE [pc[c] EXCEPT !.op = "metrics_write",
                                            !.mid = b.messages[Len(b.messages)].message_id]
                    ELSE [pc[c] EXCEPT !.op = "capture"]]
    /\ UNCHANGED <<docs, now, hooks, h, pre, pool, tpc, fvars, vvars, law>>

MetricsWrite(c) ==
    /\ pc[c].op = "metrics_write"
    /\ docs' = update_last_message_metrics_write(docs, pc[c].sid, pc[c].aid, pc[c].mid)
    /\ pc' = [pc EXCEPT ![c] = [pc[c] EXCEPT !.op = "capture"]]
    /\ UNCHANGED <<now, hooks, h, pre, pool, tpc, fvars, vvars, law>>

Capture(c, model, prompt) ==
    /\ pc[c].op = "capture"
    /\ docs' = capture_agent_config(docs, pc[c].sid, pc[c].aid, model, prompt)
    /\ pc' = [pc EXCEPT ![c] = IdlePc]
    /\ UNCHANGED <<now, hooks, h, pre, pool, tpc, fvars, vvars, law>>

CreateMessage(c, sid, aid, mid) ==
    /\ pc[c].op = "idle"
    /\ ~RaisesNotFound(docs, sid, "create_message")
    /\ Len(BlockOf(docs, sid, aid).messages) < MaxMsgs
    /\ docs' = create_message(docs, sid, aid, mid, "c", now)
    /\ UNCHANGED <<now, hooks, h, pre, pc, pool, tpc, fvars, vvars, law>>

\* create_message as concurrent callers see it: message_data is stamped
\* with datetime.now(UTC) by the caller, and update_one is sent afterwards.
MessagesInFlight(sid, aid) ==
    Cardinality({o \in Callers : pc[o].op = "create_message" /\ pc[o].sid = sid
                                                             /\ pc[o].aid = aid})

CreateMessageStamp(c, sid, aid, mid) ==
    /\ pc[c].op = "idle"
    /\ Len(BlockOf(docs, sid, aid).messages) + MessagesInFlight(sid, aid) < MaxMsgs
    /\ pc' = [pc EXCEPT ![c] = [IdlePc EXCEPT !.op = "create_message", !.sid = sid,
                                              !.aid = aid, !.mid = mid, !.cat = now]]
    /\ UNCHANGED <<docs, now, hooks, h, pre, pool, tpc, fvars, vvars, law>>

CreateMessagePush(c) ==
    /\ pc[c].op = "create_message"
    /\ docs' = create_message(docs, pc[c].sid, pc[c].aid, pc[c].mid, "c", pc[c].cat)
    /\ pc' = [pc EXCEPT ![c] = IdlePc]
    /\ UNCHANGED <<now, hooks, h, pre, pool, tpc, fvars, vvars, law>>

\* list_messages called by a caller: out keeps the arguments, the stored
\* sequence that was read and the list returned.
ListMessages(c, sid, aid, limit, offset) ==
    /\ pc[c].op = "idle"
    /\ list_messages_outcome(docs, sid, aid) = "ok"
    /\ out' = [op |-> "list_messages", sid |-> sid, aid |-> aid, limit |-> limit,
               offset |-> offset, stored |-> BlockOf(docs, sid, aid).messages,
               result |-> list_messages(docs, sid, aid, limit, offset)]
    /\ UNCHANGED <<docs, now, hooks, h, pre, pc, pool, tpc, fvars, req, resp, cache, law>>

\* update_agent_config of the handle on session sid.
UpdateAgentConfig(c, sid, aid, model, prompt) ==
    /\ pc[c].op = "idle"
    /\ docs' = update_agent_config(docs, sid, aid, model, prompt)
    /\ UNCHANGED <<now, hooks, h, pre, pc, pool, tpc, fvars, vvars, law>>

\* update_message, the find_one and the scan for message_id.  It raises
\* when the agent or the message is missing, and nothing is written.
UpdateMessageFind(c, sid, aid, mid) ==
    /\ pc[c].op = "idle"
    /\ HasAgent(docs, sid, aid)
    /\ LET msgs == docs[sid].agents[aid].messages
           i == IndexOf(msgs, mid)
       IN /\ i # 0
          /\ ~NullBefore(msgs, mid)
          /\ pc' = [pc EXCEPT ![c] = [IdlePc EXCEPT !.op = "update_message", !.sid = sid,
                                                    !.aid = aid, !.mid = mid, !.idx = i,
                                                    !.cat = msgs[i].created_at,
                                                    !.uat = now]]
    /\ UNCHANGED <<docs, now, hooks, h, pre, pool, tpc, fvars, vvars, law>>

UpdateMessageWrite(c) ==
    /\ pc[c].op = "update_message"
    /\ docs' = update_message_write(docs, pc[c].sid, pc[c].aid, pc[c].idx,
                                    Entry(pc[c].mid, "r", pc[c].cat, pc[c].uat, 0), now)
    /\ pc' = [pc EXCEPT ![c] = IdlePc]
    /\ UNCHANGED <<now, hooks, h, pre, pool, tpc, fvars, vvars, law>>

\* Repository metadata and feedback calls made directly by a caller.
UpdateMetadata(c, sid, M) ==
    /\ pc[c].op = "idle"
    /\ ~update_metadata_rejected(docs, sid, M)
    /\ docs' = update_metadata(docs, sid, M)
    /\ UNCHANGED <<now, hooks, h, pre, pc, pool, tpc, fvars, vvars, law>>

DeleteMetadata(c, sid, K) ==
    /\ pc[c].op = "idle"
    /\ ~delete_metadata_rejected(docs, sid, K)
    /\ docs' = delete_metadata(docs, sid, K)
    /\ UNCHANGED <<now, hooks, h, pre, pc, pool, tpc, fvars, vvars, law>>

\* add_feedback: feedback_doc and the update document are built, with
\* datetime.now(UTC), before update_one is called.
MaxStoreFeedbacks == 2

FeedbacksInFlight == Cardinality({o \in Callers : pc[o].op = "add_feedback"})

AddFeedback(c, sid, rating) ==
    /\ pc[c].op = "idle"
    /\ (IF Exists(docs, sid) THEN Len(docs[sid].feedbacks) ELSE 0) + FeedbacksInFlight
           < MaxStoreFeedbacks
    /\ pc' = [pc EXCEPT ![c] = [IdlePc EXCEPT !.op = "add_feedback", !.sid = sid,
                                              !.rating = rating, !.cat = now]]
    /\ UNCHANGED <<docs, now, hooks, h, pre, pool, tpc, fvars, vvars, law>>

AddFeedbackWrite(c) ==
    /\ pc[c].op = "add_feedback"
    /\ docs' = add_feedback(docs, pc[c].sid, pc[c].rating, pc[c].cat)
    /\ pc' = [pc EXCEPT ![c] = IdlePc]
    /\ UNCHANGED <<now, hooks, h, pre, pool, tpc, fvars, vvars, law>>

\* A PyMongoError (server unreachable, or the DuplicateKeyError of a lost
\* create_session) reaches the caller: the operation ends and writes
\* nothing more.
Fail(c) ==
    /\ pc[c].op # "idle"
    /\ pc' = [pc EXCEPT ![c] = IdlePc]
    /\ UNCHANGED <<docs, now, hooks, h, pre, pool, tpc, fvars, vvars, law>>

(***************************************************************************)
(* MongoDBConnectionPool.  The class attributes _instance, _lock, _client, *)
(* _connection_string and _client_kwargs, and the MongoClient objects the  *)
(* pool has created (client i is clients[i]; 0 is None).  Only __new__     *)
(* takes the lock: the other methods read and write the attributes one at  *)
(* a time, and threads interleave between those accesses.                  *)
(***************************************************************************)
MaxClients == 2

Threads == {"t1", "t2"}
ConnStrings == {"cs1", "cs2"}
Kwargs == {"kwA", "kwB"}
PoolOps == {"initialize", "get_client", "close", "get_pool_stats"}

\* raised: some initialize has met a PyMongoError and raised it.
PoolInit == [instances |-> 0, instance |-> 0, lock |-> "free", client |-> 0,
             cs |-> "None", kw |-> "empty", clients |-> <<>>, raised |-> FALSE]

IdleT == [op |-> "none", at |-> "idle", cs |-> "None", kw |-> "empty", ret |-> 0,
          outcome |-> "none", held0 |-> 0, made0 |-> 0]

NewClient(cs, kw) == [cs |-> cs, kw |-> kw, closed |-> FALSE]

\* client.close()
CloseClient(clients, i) == [clients EXCEPT ![i].closed = TRUE]

\* initialize: "instance._client is not None and instance._connection_string
\* == connection_string and instance._client_kwargs == kwargs".
ReusableByString(p, cs, kw) == p.client # 0 /\ p.cs = cs

Reusable(p, cs, kw) == p.client # 0 /\ p.cs = cs /\ p.kw = kw

\* A call of a classmethod starts with instance = cls(), that is __new__.
Initializing == {o \in Threads : tpc[o].op = "initialize" /\ tpc[o].at # "idle"}

\* The locals of a thread that enters a classmethod of the pool.
PoolFrame(op, cs, kw) ==
    [IdleT EXCEPT !.op = op, !.at = "new", !.cs = cs, !.kw = kw,
                  !.held0 = IF op = "initialize" THEN pool.client ELSE 0,
                  !.made0 = IF op = "initialize" THEN Len(pool.clients) ELSE 0]

\* The thread has left the pool call it made.
Returned(t) == tpc[t].at = "idle" /\ tpc[t].outcome # "none"

PoolCall(t, op, cs, kw) ==
    /\ tpc[t].at = "idle"
    /\ op = "initialize" => Len(pool.clients) + Cardinality(Initializing) < MaxClients
    /\ op # "initialize" => cs = "None" /\ kw = "empty"
    /\ tpc' = [tpc EXCEPT ![t] = PoolFrame(op, cs, kw)]
    /\ UNCHANGED <<docs, now, hooks, h, pre, pc, pool, fvars, vvars, law>>

\* __new__: "if cls._instance is None:" outside the lock.
NewCheck(t) ==
    /\ tpc[t].at = "new"
    /\ tpc' = [tpc EXCEPT ![t].at = IF pool.instance = 0 THEN "new_lock" ELSE "body"]
    /\ UNCHANGED <<docs, now, hooks, h, pre, pc, pool, fvars, vvars, law>>

\* __new__: "with cls._lock:".
NewLock(t) ==
    /\ tpc[t].at = "new_lock"
    /\ pool.lock = "free"
    /\ pool' = [pool EXCEPT !.lock = t]
    /\ tpc' = [tpc EXCEPT ![t].at = "new_locked"]
    /\ UNCHANGED <<docs, now, hooks, h, pre, pc, fvars, vvars, law>>

\* __new__: the second check, the creation, and the release of the lock.
NewCreate(t) ==
    /\ tpc[t].at = "new_locked"
    /\ pool' = [pool EXCEPT !.lock = "free",
                            !.instance = 1,
                            !.instances = IF pool.instance = 0 THEN @ + 1 ELSE @]
    /\ tpc' = [tpc EXCEPT ![t].at = "body"]
    /\ UNCHANGED <<docs, now, hooks, h, pre, pc, fvars, vvars, law>>

\* initialize: the test for an existing client with the same parameters.
InitCheck(t) ==
    /\ tpc[t].at = "body" /\ tpc[t].op = "initialize"
    /\ tpc' = [tpc EXCEPT ![t].at =
                  IF Reusable(pool, tpc[t].cs, tpc[t].kw) THEN "ret_existing"
                  ELSE "check_held"]
    /\ UNCHANGED <<docs, now, hooks, h, pre, pc, pool, fvars, vvars, law>>

\* initialize: "if instance._client is not None:" before the close.
InitCheckHeld(t) ==
    /\ tpc[t].at = "check_held"
    /\ tpc' = [tpc EXCEPT ![t].at = IF pool.client # 0 THEN "closing" ELSE "create"]
    /\ UNCHANGED <<docs, now, hooks, h, pre, pc, pool, fvars, vvars, law>>

\* initialize: "return instance._client" of the reuse branch.
InitReturnExisting(t) ==
    /\ tpc[t].at = "ret_existing"
    /\ tpc' = [tpc EXCEPT ![t].at = "idle", ![t].ret = pool.client, ![t].outcome = "ok"]
    /\ UNCHANGED <<docs, now, hooks, h, pre, pc, pool, fvars, vvars, law>>

\* initialize and close: "instance._client.close()" inside try / except
\* Exception; on None the AttributeError is caught and logged.
PoolClosing(t) ==
    /\ tpc[t].at = "closing"
    /\ pool' = [pool EXCEPT !.clients = IF pool.client # 0 THEN CloseClient(@, pool.client)
                                        ELSE @]
    /\ tpc' = [tpc EXCEPT ![t].at = "clear"]
    /\ UNCHANGED <<docs, now, hooks, h, pre, pc, fvars, vvars, law>>

\* initialize: "instance._client = None" after the close; close: the
\* finally block, which also resets the parameters.
PoolClear(t) ==
    /\ tpc[t].at = "clear"
    /\ IF tpc[t].op = "close"
       THEN /\ pool' = [pool EXCEPT !.client = 0, !.cs = "None", !.kw = "empty"]
            /\ tpc' = [tpc EXCEPT ![t].at = "idle", ![t].outcome = "ok"]
       ELSE /\ pool' = [pool EXCEPT !.client = 0]
            /\ tpc' = [tpc EXCEPT ![t].at = "create"]
    /\ UNCHANGED <<docs, now, hooks, h, pre, pc, fvars, vvars, law>>

\* initialize: "instance._client = MongoClient(connection_string,
\* **merged_kwargs)".
InitCreate(t) ==
    /\ tpc[t].at = "create"
    /\ pool' = [pool EXCEPT !.clients = Append(@, NewClient(tpc[t].cs, tpc[t].kw)),
                            !.client = Len(pool.clients) + 1]
    /\ tpc' = [tpc EXCEPT ![t].at = "store"]
    /\ UNCHANGED <<docs, now, hooks, h, pre, pc, fvars, vvars, law>>

\* initialize: the two assignments of the parameters.
InitStore(t) ==
    /\ tpc[t].at = "store"
    /\ pool' = [pool EXCEPT !.cs = tpc[t].cs, !.kw = tpc[t].kw]
    /\ tpc' = [tpc EXCEPT ![t].at = "ping"]
    /\ UNCHANGED <<docs, now, hooks, h, pre, pc, fvars, vvars, law>>

\* initialize: "instance._client.admin.command('ping')".  A PyMongoError
\* goes to the except clause; on None the AttributeError leaves the method.
InitPing(t) ==
    /\ tpc[t].at = "ping"
    /\ IF pool.client = 0
       THEN tpc' = [tpc EXCEPT ![t].at = "idle", ![t].outcome = "AttributeError"]
       ELSE \E ok \in BOOLEAN :
               tpc' = [tpc EXCEPT ![t].at = IF ok /\ ~pool.clients[pool.client].closed
                                            THEN "ret_new" ELSE "failed"]
    /\ UNCHANGED <<docs, now, hooks, h, pre, pc, pool, fvars, vvars, law>>

\* initialize: "except PyMongoError: instance._client = None; raise".
InitFailed(t) ==
    /\ tpc[t].at = "failed"
    /\ pool' = [pool EXCEPT !.client = 0, !.raised = TRUE]
    /\ tpc' = [tpc EXCEPT ![t].at = "idle", ![t].outcome = "PyMongoError"]
    /\ UNCHANGED <<docs, now, hooks, h, pre, pc, fvars, vvars, law>>

\* initialize: "return instance._client" after the ping.
InitReturnNew(t) ==
    /\ tpc[t].at = "ret_new"
    /\ tpc' = [tpc EXCEPT ![t].at = "idle", ![t].ret = pool.client, ![t].outcome = "ok"]
    /\ UNCHANGED <<docs, now, hooks, h, pre, pc, pool, fvars, vvars, law>>

\* get_client: "return instance._client".
GetClient(t) ==
    /\ tpc[t].at = "body" /\ tpc[t].op = "get_client"
    /\ tpc' = [tpc EXCEPT ![t].at = "idle", ![t].ret = pool.client, ![t].outcome = "ok"]
    /\ UNCHANGED <<docs, now, hooks, h, pre, pc, pool, fvars, vvars, law>>

\* close: "if instance._client is not None:".
CloseCheck(t) ==
    /\ tpc[t].at = "body" /\ tpc[t].op = "close"
    /\ tpc' = [tpc EXCEPT ![t].at = IF pool.client # 0 THEN "closing" ELSE "idle",
                          ![t].outcome = IF pool.client # 0 THEN "none" ELSE "ok"]
    /\ UNCHANGED <<docs, now, hooks, h, pre, pc, pool, fvars, vvars, law>>

\* get_pool_stats: "if instance._client is None:".
StatsCheck(t) ==
    /\ tpc[t].at = "body" /\ tpc[t].op = "get_pool_stats"
    /\ tpc' = [tpc EXCEPT ![t].at = IF pool.client # 0 THEN "server_info" ELSE "idle",
                          ![t].outcome = IF pool.client # 0 THEN "none" ELSE "not_initialized"]
    /\ UNCHANGED <<docs, now, hooks, h, pre, pc, pool, fvars, vvars, law>>

\* get_pool_stats: "instance._client.server_info()" inside try / except
\* Exception: a closed or missing client gives status "error".
StatsServerInfo(t) ==
    /\ tpc[t].at = "server_info"
    /\ \E ok \in BOOLEAN :
          tpc' = [tpc EXCEPT ![t].at = "idle",
                             ![t].outcome = IF /\ ok
                                               /\ pool.client # 0
                                               /\ ~pool.clients[pool.client].closed
                                            THEN "connected" ELSE "error"]
    /\ UNCHANGED <<docs, now, hooks, h, pre, pc, pool, fvars, vvars, law>>

PoolStep(t) ==
    \/ \E cs \in ConnStrings, kw \in Kwargs : PoolCall(t, "initialize", cs, kw)
    \/ \E op \in PoolOps \ {"initialize"} : PoolCall(t, op, "None", "empty")
    \/ NewCheck(t)
    \/ NewLock(t)
    \/ NewCreate(t)
    \/ InitCheck(t)
    \/ InitCheckHeld(t)
    \/ InitReturnExisting(t)
    \/ PoolClosing(t)
    \/ PoolClear(t)
    \/ InitCreate(t)
    \/ InitStore(t)
    \/ InitPing(t)
    \/ InitFailed(t)
    \/ InitReturnNew(t)
    \/ GetClient(t)
    \/ CloseCheck(t)
    \/ StatsCheck(t)
    \/ StatsServerInfo(t)

(***************************************************************************)
(* MongoDBSessionManagerFactory, the repositories and session handles, and *)
(* the MongoClient objects they hold.  A client reference says where the   *)
(* client was created: <<"pool", i>> is pool.clients[i] (<<"pool", 0>> is  *)
(* None), <<"heap", i>> is heap[i], a client created by a repository or by *)
(* the host.  Configuration values are written as Python writes them:      *)
(* "None", "" and "[]" are the values that test false.                     *)
(***************************************************************************)
MaxObjects == 3

PoolRef(i) == <<"pool", i>>
HeapRef(i) == <<"heap", i>>

IsClosed(ref) ==
    CASE ref[1] = "pool" /\ ref[2] # 0 -> pool.clients[ref[2]].closed
      [] ref[1] = "heap" -> heap[ref[2]].closed
      [] OTHER -> FALSE

\* The clients that exist and can be passed to a constructor.
ClientRefs ==
    {PoolRef(i) : i \in 1..Len(pool.clients)} \cup {HeapRef(i) : i \in 1..Len(heap)}

\* Python's "a or b".
Falsy(x) == x \in {"None", "", "[]"}
Or(a, b) == IF Falsy(a) THEN b ELSE a

\* The defaults a factory is constructed with, and the overrides of a call
\* of create_session_manager ("None": the argument is not given).
FactoryCfgs ==
    [database_name : {"db1", "db3"}, collection_name : {"c1"},
     metadata_fields : {"None", "[k2]"}, application_name : {"None", "app2"}]
NoOverrides ==
    [database_name |-> "None", collection_name |-> "None", metadata_fields |-> "None",
     application_name |-> "None"]
Overrides ==
    [database_name : {"None", "", "db2"}, collection_name : {"None", "c2"},
     metadata_fields : {"None", "[]", "[k1]"}, application_name : {"None", "app1"}]

\* closed: close() has been called on the object.  __init__ has no
\* parameter application_name: one given to it is taken into
\* **client_kwargs and no attribute keeps it; args_application_name records
\* what the constructor was given.
Factory(ref, owns, cfg) ==
    [client |-> ref, owns |-> owns, closed |-> FALSE,
     database_name |-> cfg.database_name, collection_name |-> cfg.collection_name,
     metadata_fields |-> cfg.metadata_fields,
     args_application_name |-> cfg.application_name]

\* A repository, alone or constructed by a session handle, which is then
\* the only holder of it: MongoDBSessionManager.__init__ passes its
\* arguments on to MongoDBSessionRepository.  maker: the factory that made
\* the handle (0: none); given: the overrides.
Component(ref, owns, db, coll, fields, app, maker, given) ==
    [client |-> ref, owns |-> owns, closed |-> FALSE,
     database_name |-> db, collection_name |-> coll, metadata_fields |-> fields,
     application_name |-> app, maker |-> maker, given |-> given]

IdleF == [global |-> FALSE, at |-> "idle", f |-> 0, cs |-> "None", kw |-> "empty",
          cfg |-> [database_name |-> "db1", collection_name |-> "c1",
                   metadata_fields |-> "None", application_name |-> "None"]]

\* The threads that are inside a function that will construct a factory.
Constructing == {o \in Threads : fpc[o].at \notin {"idle", "f_closing"} \/ fpc[o].global}

\* The clients the host made itself, and the factories, repositories,
\* handles and host clients made or being made.
HostClients ==
    {i \in 1..Len(heap) :
        ~\E c \in 1..Len(comps) : comps[c].owns /\ comps[c].client = HeapRef(i)}
Objects ==
    Len(factories) + Cardinality(Constructing) + Len(comps) + Cardinality(HostClients)

\* Factory.__init__ with a connection string: it stores the defaults and
\* calls MongoDBConnectionPool.initialize(connection_string, **client_kwargs).
FactoryInitCall(t, cs, kw, cfg) ==
    /\ fpc[t].at = "idle" /\ tpc[t].at = "idle"
    /\ Objects < MaxObjects
    /\ Len(pool.clients) + Cardinality(Initializing) < MaxClients
    /\ tpc' = [tpc EXCEPT ![t] = PoolFrame("initialize", cs, kw)]
    /\ fpc' = [fpc EXCEPT ![t] = [IdleF EXCEPT !.at = "f_init", !.cs = cs, !.kw = kw,
                                               !.cfg = cfg]]
    /\ UNCHANGED <<docs, now, hooks, h, pre, pc, pool, factories, global_factory, comps,
                   heap, vvars, law>>

\* Factory.__init__: initialize has returned the client (the factory owns
\* it), or has raised and no factory is made.
FactoryInitReturn(t) ==
    /\ fpc[t].at = "f_init" /\ Returned(t)
    /\ IF tpc[t].outcome = "ok"
       THEN /\ factories' = Append(factories, Factory(PoolRef(tpc[t].ret), TRUE, fpc[t].cfg))
            /\ fpc' = [fpc EXCEPT ![t] = IF fpc[t].global
                                         THEN [fpc[t] EXCEPT !.at = "g_assign",
                                                             !.f = Len(factories) + 1]
                                         ELSE IdleF]
       ELSE /\ factories' = factories
            /\ fpc' = [fpc EXCEPT ![t] = IdleF]
    /\ tpc' = [tpc EXCEPT ![t] = IdleT]
    /\ UNCHANGED <<docs, now, hooks, h, pre, pc, pool, global_factory, comps, heap,
                   vvars, law>>

\* Factory.__init__ with client=: the factory borrows it.
FactoryInitBorrow(t, ref, cfg) ==
    /\ fpc[t].at = "idle" /\ tpc[t].at = "idle"
    /\ Objects < MaxObjects
    /\ ref \in ClientRefs
    /\ factories' = Append(factories, Factory(ref, FALSE, cfg))
    /\ UNCHANGED <<docs, now, hooks, h, pre, pc, pool, tpc, global_factory, fpc, comps,
                   heap, vvars, law>>

\* Factory.close: "if self._owns_client: MongoDBConnectionPool.close()".
FactoryCloseCall(t, f) ==
    /\ fpc[t].at = "idle" /\ tpc[t].at = "idle"
    /\ f \in 1..Len(factories)
    /\ factories' = [factories EXCEPT ![f].closed = TRUE]
    /\ IF factories[f].owns
       THEN /\ tpc' = [tpc EXCEPT ![t] = PoolFrame("close", "None", "empty")]
            /\ fpc' = [fpc EXCEPT ![t] = [IdleF EXCEPT !.at = "f_closing", !.f = f]]
       ELSE UNCHANGED <<tpc, fpc>>
    /\ UNCHANGED <<docs, now, hooks, h, pre, pc, pool, global_factory, comps, heap,
                   vvars, law>>

FactoryCloseReturn(t) ==
    /\ fpc[t].at = "f_closing" /\ Returned(t)
    /\ fpc' = [fpc EXCEPT ![t] = IF fpc[t].global THEN [fpc[t] EXCEPT !.at = "g_construct"]
                                 ELSE IdleF]
    /\ tpc' = [tpc EXCEPT ![t] = IdleT]
    /\ UNCHANGED <<docs, now, hooks, h, pre, pc, pool, factories, global_factory, comps,
                   heap, vvars, law>>

\* create_session_manager: "database_name or self.database_name" and the
\* like; application_name travels in **kwargs and the factory stores no
\* default for it.  The handle gets client=self._client, so it borrows.
create_session_manager(F, maker, o) ==
    Component(F.client, FALSE,
              Or(o.database_name, F.database_name),
              Or(o.collection_name, F.collection_name),
              Or(o.metadata_fields, F.metadata_fields),
              o.application_name, maker, o)

CreateSessionManager(t, f, o) ==
    /\ fpc[t].at = "idle" /\ tpc[t].at = "idle"
    /\ f \in 1..Len(factories)
    /\ Objects < MaxObjects
    /\ comps' = Append(comps, create_session_manager(factories[f], f, o))
    /\ UNCHANGED <<docs, now, hooks, h, pre, pc, pool, tpc, factories, global_factory,
                   fpc, heap, vvars, law>>

\* The host's own MongoClient(...), to be passed to a constructor.
HostClient(t) ==
    /\ fpc[t].at = "idle" /\ tpc[t].at = "idle"
    /\ Objects < MaxObjects
    /\ heap' = Append(heap, [closed |-> FALSE])
    /\ UNCHANGED <<docs, now, hooks, h, pre, pc, pool, tpc, factories, global_factory,
                   fpc, comps, vvars, law>>

\* MongoDBSessionRepository.__init__, directly or from
\* MongoDBSessionManager.__init__, with a connection string:
\* "self.client = MongoClient(connection_string, **kwargs)", owned.
ComponentInitOwn(t) ==
    /\ fpc[t].at = "idle" /\ tpc[t].at = "idle"
    /\ Objects < MaxObjects
    /\ heap' = Append(heap, [closed |-> FALSE])
    /\ comps' = Append(comps, Component(HeapRef(Len(heap) + 1), TRUE, "db1", "c1",
                                        "None", "None", 0, NoOverrides))
    /\ UNCHANGED <<docs, now, hooks, h, pre, pc, pool, tpc, factories, global_factory,
                   fpc, vvars, law>>

\* The same constructors with client=: borrowed.
ComponentInitBorrow(t, ref) ==
    /\ fpc[t].at = "idle" /\ tpc[t].at = "idle"
    /\ Objects < MaxObjects
    /\ ref \in ClientRefs
    /\ comps' = Append(comps, Component(ref, FALSE, "db1", "c1", "None", "None", 0,
                                        NoOverrides))
    /\ UNCHANGED <<docs, now, hooks, h, pre, pc, pool, tpc, factories, global_factory,
                   fpc, heap, vvars, law>>

\* MongoDBSessionRepository.close: "if self._owns_client: self.client.close()".
\* via "handle" is MongoDBSessionManager.close, which calls it on its
\* repository.
close_always(c, hp) == IF c.client[1] = "heap" THEN CloseClient(hp, c.client[2]) ELSE hp

close(c, hp) == IF c.owns THEN CloseClient(hp, c.client[2]) ELSE hp

ComponentClose(t, i, via) ==
    /\ fpc[t].at = "idle" /\ tpc[t].at = "idle"
    /\ i \in 1..Len(comps)
    /\ via \in {"repository", "handle"}
    /\ heap' = close(comps[i], heap)
    /\ comps' = [comps EXCEPT ![i].closed = TRUE]
    /\ UNCHANGED <<docs, now, hooks, h, pre, pc, pool, tpc, factories, global_factory,
                   fpc, vvars, law>>

\* initialize_global_factory.  No lock is taken: the test of
\* _global_factory, the close of the old factory, the construction of the
\* new one and the assignment are separate steps of the thread.
InitializeGlobalCall(t, cs, kw, cfg) ==
    /\ fpc[t].at = "idle" /\ tpc[t].at = "idle"
    /\ Objects < MaxObjects
    /\ fpc' = [fpc EXCEPT ![t] = [IdleF EXCEPT !.global = TRUE, !.at = "g_check",
                                               !.cs = cs, !.kw = kw, !.cfg = cfg]]
    /\ UNCHANGED <<docs, now, hooks, h, pre, pc, pool, tpc, factories, global_factory,
                   comps, heap, vvars, law>>

\* "if _global_factory is not None:".
GlobalCheck(t) ==
    /\ fpc[t].at = "g_check"
    /\ fpc' = [fpc EXCEPT ![t].at = IF global_factory # 0 THEN "g_close" ELSE "g_construct"]
    /\ UNCHANGED <<docs, now, hooks, h, pre, pc, pool, tpc, factories, global_factory,
                   comps, heap, vvars, law>>

\* "_global_factory.close()": the factory installed now; it owns its client.
GlobalCloseOld(t) ==
    /\ fpc[t].at = "g_close"
    /\ factories' = [factories EXCEPT ![global_factory].closed = TRUE]
    /\ tpc' = [tpc EXCEPT ![t] = PoolFrame("close", "None", "empty")]
    /\ fpc' = [fpc EXCEPT ![t].at = "f_closing", ![t].f = global_factory]
    /\ UNCHANGED <<docs, now, hooks, h, pre, pc, pool, global_factory, comps, heap,
                   vvars, law>>

\* "MongoDBSessionManagerFactory(connection_string=..., ...)".
GlobalConstruct(t) ==
    /\ fpc[t].at = "g_construct"
    /\ Len(pool.clients) + Cardinality(Initializing) < MaxClients
    /\ tpc' = [tpc EXCEPT ![t] = PoolFrame("initialize", fpc[t].cs, fpc[t].kw)]
    /\ fpc' = [fpc EXCEPT ![t].at = "f_init"]
    /\ UNCHANGED <<docs, now, hooks, h, pre, pc, pool, factories, global_factory, comps,
                   heap, vvars, law>>

\* "_global_factory = MongoDBSessionManagerFactory(...)": the assignment.
GlobalAssign(t) ==
    /\ fpc[t].at = "g_assign"
    /\ global_factory' = fpc[t].f
    /\ fpc' = [fpc EXCEPT ![t] = IdleF]
    /\ UNCHANGED <<docs, now, hooks, h, pre, pc, pool, tpc, factories, comps, heap,
                   vvars, law>>

\* The steps of the pool calls that the factories make.
PoolInside(t) ==
    \/ NewCheck(t)
    \/ NewLock(t)
    \/ NewCreate(t)
    \/ InitCheck(t)
    \/ InitCheckHeld(t)
    \/ InitReturnExisting(t)
    \/ PoolClosing(t)
    \/ PoolClear(t)
    \/ InitCreate(t)
    \/ InitStore(t)
    \/ InitPing(t)
    \/ InitFailed(t)
    \/ InitReturnNew(t)
    \/ CloseCheck(t)

InitFactories ==
    /\ factories = <<>>
    /\ global_factory = 0
    /\ fpc = [t \in Threads |-> IdleF]
    /\ comps = <<>>
    /\ heap = <<>>

(***************************************************************************)
(* The session viewer backend (session_viewer/backend/main.py): one HTTP   *)
(* request is the middleware and then the endpoint the router selects.     *)
(* A path is the sequence of its segments; a header that is not sent is    *)
(* NoHeader; a digest is the pair of the algorithm and the text digested   *)
(* (different texts have different digests).                               *)
(***************************************************************************)
MaxPat == 2

BackendPassword == "admin"
Sha256(text) == <<"sha256", text>>
NoHeader == <<"none", "">>
Headers == {NoHeader} \cup {Sha256(x) : x \in Passwords \cup {BackendPassword}}

ViewerSessions == {"s1", "s2"}
UrlSessions == ViewerSessions \cup {"s3"}

\* The characters of the strings the search compares.
CharsOf(str) ==
    CASE str = "s1" -> <<"s", "1">>
      [] str = "s2" -> <<"s", "2">>
      [] str = "s3" -> <<"s", "3">>
      [] str = "v1" -> <<"v", "1">>
      [] str = "v2" -> <<"v", "2">>
      [] OTHER -> <<>>

PatChars == {"s", "S", "1", "."}
Patterns == UNION {[1..n -> PatChars] : n \in 0..MaxPat}

Lower(ch) == IF ch = "S" THEN "s" ELSE IF ch = "V" THEN "v" ELSE ch

\* {"$regex": pattern, "$options": "i"}: an unanchored search in which "."
\* stands for any character and letters match without regard to case.
RegexChar(pch, ch) == pch = "." \/ Lower(pch) = Lower(ch)

RegexSearch(pat, text) ==
    \E i \in 1..(Len(text) - Len(pat) + 1) :
        \A j \in 1..Len(pat) : RegexChar(pat[j], text[i + j - 1])

\* The filters of a search: the session_id parameter ("" and None both
\* test false: <<>>), and the value given for "metadata.k1" in the filters
\* JSON (on: the key is given).
NoFilters == [session_id |-> <<>>, meta |-> [on |-> FALSE, v |-> <<>>]]

\* build_search_query, and the documents the query selects.
QueryMatches(doc, f) ==
    /\ f.session_id # <<>> => RegexSearch(f.session_id, CharsOf(doc.session_id))
    /\ f.meta.on => /\ doc.metadata["k1"].t = "scalar"
                    /\ RegexSearch(f.meta.v, CharsOf(doc.metadata["k1"].v))

search_sessions(d, f) == {sid \in DOMAIN d : QueryMatches(d[sid], f)}

Endpoints == {"health", "check_password", "search", "detail", "session_check",
              "metadata_fields"}

PathOf(ep, sid) ==
    CASE ep = "health" -> <<"health">>
      [] ep = "check_password" -> <<"api", "v1", "check_password">>
      [] ep = "search" -> <<"api", "v1", "sessions", "search">>
      [] ep = "detail" -> <<"api", "v1", "sessions", sid>>
      [] ep = "session_check" -> <<"api", "v1", "sessions", sid, "check_password">>
      [] OTHER -> <<"api", "v1", "metadata-fields">>

MethodOf(ep) == IF ep \in {"check_password", "session_check"} THEN "POST" ELSE "GET"

\* hash: the password_hash of the body of a check_password request.
Request(ep, sid, xpw, xspw, hash, f) ==
    [endpoint |-> ep, method |-> MethodOf(ep), path |-> PathOf(ep, sid), sid |-> sid,
     xpw |-> xpw, xspw |-> xspw, hash |-> hash, filters |-> f]

NoRequest == Request("health", "s1", NoHeader, NoHeader, NoHeader, NoFilters)

Response(status, sessions, valid, used_global) ==
    [status |-> status, sessions |-> sessions, valid |-> valid, used_global |-> used_global]

NoResponse == Response(0, {}, FALSE, FALSE)

\* request.url.path.startswith("/api/v1/sessions/") and .endswith("/check_password").
UnderSessions(path) ==
    Len(path) >= 4 /\ path[1] = "api" /\ path[2] = "v1" /\ path[3] = "sessions"
EndsWithCheckPassword(path) == path[Len(path)] = "check_password"

\* password_middleware: TRUE when the request is passed on to the router.
\* len(path_parts) == 5 counts the empty part before the first "/".
password_middleware(r) ==
    \/ UnderSessions(r.path) /\ EndsWithCheckPassword(r.path)
    \/ r.path \in {<<"health">>, <<"api", "v1", "check_password">>}
    \/ /\ r.method = "GET"
       /\ UnderSessions(r.path)
       /\ Len(r.path) + 1 = 5
       /\ r.xspw # NoHeader
    \/ r.xpw = Sha256(BackendPassword)

HasPassword(d, sid) == Exists(d, sid) /\ d[sid].session_viewer_password # Absent

\* validate_session_password.
validate_session_password(d, sid, hash, global_hash) ==
    IF HasPassword(d, sid) /\ hash = Sha256(d[sid].session_viewer_password)
    THEN [valid |-> TRUE, used_global |-> FALSE]
    ELSE IF hash = global_hash
         THEN [valid |-> TRUE, used_global |-> TRUE]
         ELSE [valid |-> FALSE, used_global |-> FALSE]

\* get_session_detail.
get_session_detail(d, r) ==
    LET v == validate_session_password(d, r.sid, r.xspw, Sha256(BackendPassword))
    IN IF r.xspw # NoHeader /\ ~v.valid THEN Response(403, {}, FALSE, FALSE)
       ELSE IF ~Exists(d, r.sid) THEN Response(404, {}, FALSE, FALSE)
       ELSE Response(200, {r.sid}, FALSE, FALSE)

\* check_session_password.
check_session_password(d, r) ==
    IF r.hash = NoHeader THEN Response(200, {}, FALSE, FALSE)
    ELSE LET v == validate_session_password(d, r.sid, r.hash, Sha256(BackendPassword))
         IN Response(200, {}, v.valid, v.used_global)

\* The router: "/api/v1/sessions/search" is registered before
\* "/api/v1/sessions/{session_id}".
Respond(d, r) ==
    IF ~password_middleware(r) THEN Response(401, {}, FALSE, FALSE)
    ELSE CASE r.endpoint = "search" -> Response(200, search_sessions(d, r.filters), FALSE, FALSE)
           [] r.endpoint = "detail" -> get_session_detail(d, r)
           [] r.endpoint = "session_check" -> check_session_password(d, r)
           [] r.endpoint = "check_password" ->
                 Response(200, {}, r.hash = Sha256(BackendPassword), FALSE)
           [] OTHER -> Response(200, {}, FALSE, FALSE)

\* The requests a client can send.
SearchRequests ==
    {Request("search", "s1", xpw, xspw, NoHeader, [session_id |-> sp, meta |-> mf]) :
        xpw \in {NoHeader, Sha256(BackendPassword)}, xspw \in {NoHeader, Sha256("pw1")},
        sp \in Patterns,
        mf \in {[on |-> FALSE, v |-> <<>>], [on |-> TRUE, v |-> <<>>],
                [on |-> TRUE, v |-> <<"1">>], [on |-> TRUE, v |-> <<".">>]}}
OtherRequests ==
    {Request(ep, sid, xpw, xspw, hash, NoFilters) :
        ep \in Endpoints \ {"search"}, sid \in UrlSessions, xpw \in Headers, xspw \in Headers,
        hash \in {NoHeader, Sha256("pw1"), Sha256(BackendPassword)}}

\* The collection does not change, so every request meets the same state:
\* one request is followed from each collection.
HandleRequest(r) ==
    /\ req = NoRequest /\ resp = NoResponse
    /\ req' = r
    /\ resp' = Respond(docs, r)
    /\ UNCHANGED <<docs, now, hooks, h, pre, pc, pool, tpc, fvars, law, out, cache>>

\* The collections the viewer is started on: sessions created by handles,
\* with or without a value under metadata.k1, and legacy documents, which
\* have no session_viewer_password.
ViewerDoc(sid, pwd, val) ==
    LET made == create_session(NoAgents, sid, "app1", pwd, {}, 0, 0)[sid]
    IN [made EXCEPT !.metadata = IF val = Absent THEN @
                                 ELSE SetMetadata(@, [p \in {<<"k1">>} |-> val])]

ViewerCollections ==
    {[sid \in ViewerSessions |-> ViewerDoc(sid, pw[sid], val[sid])] :
        pw \in [ViewerSessions -> {"pw1", Absent}], val \in [ViewerSessions -> {"v1", Absent}]}

InitViewer ==
    /\ req = NoRequest
    /\ resp = NoResponse

\* The metadata tool (get_metadata_tool).  An argument is None, a structured
\* value, a string that is the JSON of a value, or a string that is not
\* JSON.
Arg(kind, v) == [kind |-> kind, v |-> v]
NoDict == Arg("none", EmptyMap)
NoKeys == Arg("none", {})

\* _parse_json_param: the value and the error, "" for None.
parse_json_param(p) ==
    CASE p.kind = "json" -> [value |-> Arg("value", p.v), error |-> ""]
      [] p.kind = "garbage" -> [value |-> [p EXCEPT !.kind = "none"],
                               error |-> "Error: must be a valid JSON"]
      [] OTHER -> [value |-> p, error |-> ""]

\* action.lower().
LowerAction(action) == IF action = "SET" THEN "set" ELSE action

\* `not metadata`, `not keys`: None and the empty dict or list.
EmptyDict(p) == p.kind = "none" \/ DOMAIN p.v = {}
EmptyList(p) == p.kind = "none" \/ p.v = {}

\* The handlers: what is returned (or "raise" when the repository call
\* raises) and the collection afterwards.
handle_metadata_set(d, sid, metadata) ==
    IF EmptyDict(metadata) THEN [returned |-> "Error: metadata dictionary required", docs |-> d]
    ELSE IF update_metadata_rejected(d, sid, metadata.v) THEN [returned |-> "raise", docs |-> d]
    ELSE [returned |-> "Successfully updated", docs |-> update_metadata(d, sid, metadata.v)]

handle_metadata_delete(d, sid, keys) ==
    IF EmptyList(keys) THEN [returned |-> "Error: keys list required", docs |-> d]
    ELSE IF delete_metadata_rejected(d, sid, keys.v) THEN [returned |-> "raise", docs |-> d]
    ELSE [returned |-> "Successfully deleted", docs |-> delete_metadata(d, sid, keys.v)]

\* The body of manage_metadata inside its try.
manage_metadata_body(d, sid, action, metadata, keys) ==
    LET pm == parse_json_param(metadata)
        pk == parse_json_param(keys)
        act == LowerAction(action)
    IN IF pm.error # "" THEN [returned |-> pm.error, docs |-> d]
       ELSE IF pk.error # "" THEN [returned |-> pk.error, docs |-> d]
       ELSE CASE act = "get" -> [returned |-> "Metadata", docs |-> d]
              [] act \in {"set", "update"} -> handle_metadata_set(d, sid, pm.value)
              [] act = "delete" -> handle_metadata_delete(d, sid, pk.value)
              [] OTHER -> [returned |-> "Error: Unknown action", docs |-> d]

manage_metadata_uncaught(d, sid, action, metadata, keys) ==
    manage_metadata_body(d, sid, action, metadata, keys)

\* except Exception: the message is returned.
manage_metadata(d, sid, action, metadata, keys) ==
    LET body == manage_metadata_body(d, sid, action, metadata, keys)
    IN IF body.returned = "raise"
       THEN [returned |-> "Error managing metadata", docs |-> body.docs]
       ELSE body

ToolActions == {"get", "set", "SET", "update", "delete", "bogus"}
ToolMappings == {EmptyMap, [p \in {<<"k1">>} |-> "v1"], [p \in {<<"k1", "x">>} |-> "v1"],
                 [p \in {<<"k1">>, <<"k1", "x">>} |-> "v2"]}
ToolKeyLists == {{}, {<<"k1">>}, {<<"k1", "x">>}, {<<"k1">>, <<"k1", "x">>}}
ToolArgs(values, none) ==
    {none, [none EXCEPT !.kind = "garbage"]}
        \cup {Arg(kind, v) : kind \in {"value", "json"}, v \in values}

ManageMetadata(action, metadata, keys) ==
    /\ docs' = manage_metadata(docs, "s1", action, metadata, keys).docs
    /\ out' = [op |-> "manage_metadata", action |-> action, metadata |-> metadata,
               keys |-> keys, before |-> docs,
               returned |-> manage_metadata(docs, "s1", action, metadata, keys).returned]
    /\ UNCHANGED <<now, hooks, h, pre, pc, pool, tpc, fvars, req, resp, cache, law>>

\* Metadata field discovery for the indexed field "metadata.k1".
\* collection.distinct: the values documents hold under the field.
EnumValues == {"v1", "v2", "v3"}
Rank(v) == CASE v = "v1" -> 1 [] v = "v2" -> 2 [] OTHER -> 3

distinct(d) ==
    {d[sid].metadata["k1"].v : sid \in {x \in DOMAIN d : d[x].metadata["k1"].t = "scalar"}}

\* sorted(distinct_values, key=str).
RECURSIVE Sorted(_)
Sorted(S) ==
    IF S = {} THEN <<>>
    ELSE LET least == CHOOSE v \in S : \A w \in S : Rank(v) <= Rank(w)
         IN <<least>> \o Sorted(S \ {least})

\* A list or None.
NoList == [none |-> TRUE, list |-> <<>>]
List(seq) == [none |-> FALSE, list |-> seq]
Truthy(vals) == ~vals.none /\ vals.list # <<>>

get_enum_values(d, max_values) ==
    IF Cardinality(distinct(d)) > max_values THEN NoList ELSE List(Sorted(distinct(d)))

\* get_metadata_fields, the FieldInfo of the field: eligible when the field
\* is in settings.enum_fields, "string" the type detect_field_type gives.
FieldInfo(d, eligible, max_values) ==
    LET values == IF eligible THEN get_enum_values(d, max_values) ELSE NoList
    IN [type |-> IF eligible /\ Truthy(values) THEN "enum" ELSE "string",
        values |-> values]

ListMetadataFields(eligible, max_values) ==
    /\ out = NoOut
    /\ out' = [op |-> "metadata_fields", eligible |-> eligible, max_values |-> max_values,
               info |-> FieldInfo(docs, eligible, max_values)]
    /\ UNCHANGED <<docs, now, hooks, h, pre, pc, pool, tpc, fvars, req, resp, cache, law>>

(***************************************************************************)
(* A caller that makes two metadata calls in a row on session s1, after    *)
(* any number of earlier ones: law records the metadata before its first   *)
(* call, the fields the session was created with and the arguments.        *)
(***************************************************************************)
NoLaw == [step |-> 0, kind |-> "none", seeded |-> {}, m0 |-> [k \in MKeys |-> AbsentVal],
          M1 |-> EmptyMap, M2 |-> EmptyMap]

LawPriorUpdate(M) ==
    /\ law.step = 0
    /\ ~update_metadata_rejected(docs, "s1", M)
    /\ docs' = update_metadata(docs, "s1", M)
    /\ UNCHANGED <<now, hooks, h, pre, pc, pool, tpc, fvars, vvars, law>>

LawPriorDelete(K) ==
    /\ law.step = 0
    /\ ~delete_metadata_rejected(docs, "s1", K)
    /\ docs' = delete_metadata(docs, "s1", K)
    /\ UNCHANGED <<now, hooks, h, pre, pc, pool, tpc, fvars, vvars, law>>

LawFirstUpdate(M) ==
    /\ law.step = 0
    /\ ~update_metadata_rejected(docs, "s1", M)
    /\ docs' = update_metadata(docs, "s1", M)
    /\ law' = [law EXCEPT !.step = 1, !.m0 = get_metadata(docs, "s1"), !.M1 = M]
    /\ UNCHANGED <<now, hooks, h, pre, pc, pool, tpc, fvars, vvars>>

LawSecondUpdate(M) ==
    /\ law.step = 1
    /\ ~update_metadata_rejected(docs, "s1", M)
    /\ docs' = update_metadata(docs, "s1", M)
    /\ law' = [law EXCEPT !.step = 2, !.kind = "update", !.M2 = M]
    /\ UNCHANGED <<now, hooks, h, pre, pc, pool, tpc, fvars, vvars>>

\* delete_metadata(list(M.keys())) for the M of the first call.
LawSecondDelete ==
    /\ law.step = 1
    /\ ~delete_metadata_rejected(docs, "s1", DOMAIN law.M1)
    /\ docs' = delete_metadata(docs, "s1", DOMAIN law.M1)
    /\ law' = [law EXCEPT !.step = 2, !.kind = "delete"]
    /\ UNCHANGED <<now, hooks, h, pre, pc, pool, tpc, fvars, vvars>>

InitLaw == law = NoLaw

(***************************************************************************)
(* SessionMetadataCache.  _cache is an OrderedDict: a sequence of entries  *)
(* with distinct keys, the first the oldest.  Every method runs its whole  *)
(* body under self._lock, so the calls of any number of threads are steps  *)
(* taken one at a time.  uses is the history the cache is judged against:  *)
(* the keys it holds, in the order of their last put or successful get.    *)
(***************************************************************************)
MaxSize == 2

CacheKeys == {"s1", "s2", "s3"}
CacheValues == {"m1", "m2"}

CacheKeysOf(entries) == {entries[i].key : i \in 1..Len(entries)}

WithoutKey(entries, key) == SelectSeq(entries, LAMBDA e : e.key # key)

EntryOf(entries, key) ==
    entries[CHOOSE i \in 1..Len(entries) : entries[i].key = key]

cache_put_no_evict(entries, max_size, key, value, t) ==
    Append(WithoutKey(entries, key), [key |-> key, value |-> value, timestamp |-> t])

cache_put(entries, max_size, key, value, t) ==
    LET added == Append(WithoutKey(entries, key),
                        [key |-> key, value |-> value, timestamp |-> t])
    IN IF Len(added) > max_size THEN Tail(added) ELSE added

cache_get_no_move(entries, ttl_seconds, key, t) ==
    IF key \notin CacheKeysOf(entries)
    THEN [entries |-> entries, returned |-> "None"]
    ELSE IF t - EntryOf(entries, key).timestamp > ttl_seconds
         THEN [entries |-> WithoutKey(entries, key), returned |-> "None"]
         ELSE [entries |-> entries, returned |-> EntryOf(entries, key).value]

cache_get(entries, ttl_seconds, key, t) ==
    IF key \notin CacheKeysOf(entries)
    THEN [entries |-> entries, returned |-> "None"]
    ELSE IF t - EntryOf(entries, key).timestamp > ttl_seconds
         THEN [entries |-> WithoutKey(entries, key), returned |-> "None"]
         ELSE [entries |-> Append(WithoutKey(entries, key), EntryOf(entries, key)),
               returned |-> EntryOf(entries, key).value]

cache_invalidate(entries, key) == WithoutKey(entries, key)

cache_clear(entries) == <<>>

\* The recorded uses after a call: key moved to the end when the call used
\* it, and the keys the cache no longer holds dropped.
Uses(uses, used, key, entries) ==
    SelectSeq(IF used THEN Append(SelectSeq(uses, LAMBDA k : k # key), key) ELSE uses,
              LAMBDA k : k \in CacheKeysOf(entries))

CacheCall(op, key, entries, used, returned) ==
    /\ cache' = [cache EXCEPT !.entries = entries,
                              !.uses = Uses(cache.uses, used, key, entries)]
    /\ out' = [op |-> op, key |-> key, before |-> cache.entries,
               uses |-> cache.uses, returned |-> returned]
    /\ UNCHANGED <<docs, now, hooks, h, pre, pc, pool, tpc, fvars, req, resp, law>>

CachePut(key, value) ==
    CacheCall("put", key, cache_put(cache.entries, cache.max_size, key, value, now),
              TRUE, "None")

CacheGet(key) ==
    LET got == cache_get(cache.entries, cache.ttl_seconds, key, now)
    IN CacheCall("get", key, got.entries, got.returned # "None", got.returned)

CacheInvalidate(key) ==
    CacheCall("invalidate", key, cache_invalidate(cache.entries, key), FALSE, "None")

CacheClear ==
    CacheCall("clear", "", cache_clear(cache.entries), FALSE, "None")

NoCache == [max_size |-> 0, ttl_seconds |-> 0, entries |-> <<>>, uses |-> <<>>]

InitCalls ==
    /\ out = NoOut
    /\ cache = NoCache

(***************************************************************************)
(* SpecHook: one handle on session s1, constructed on an empty collection, *)
(* with any combination of hooks; one caller at a time.                    *)
(***************************************************************************)
InitHook ==
    /\ now = 0
    /\ \E fields \in {{}, {"k2"}} :
          docs = create_session(NoAgents, HandleSession, "app1", "pw1", fields, 0, 0)
    /\ hooks \in {[metadata |-> k, feedback |-> k, pending |-> 0] : k \in HookKinds}
    /\ h = Idle
    /\ pre = docs
    /\ pc = [c \in Callers |-> IdlePc]
    /\ pool = PoolInit
    /\ tpc = [t \in Threads |-> IdleT]
    /\ InitFactories
    /\ InitViewer
    /\ InitCalls
    /\ InitLaw

NextHook ==
    \/ \E M \in Mappings : Call("update", M, {}, "none")
    \/ \E K \in KeyLists : Call("delete", EmptyMap, K, "none")
    \/ Call("get", EmptyMap, {}, "none")
    \/ \E r \in Ratings : Call("add", EmptyMap, {}, r)
    \/ HookBefore
    \/ Original
    \/ HookAfter
    \/ Deliver
    \/ Return
    \/ Tick

SpecHook == InitHook /\ [][NextHook]_vars

(***************************************************************************)
(* Spec: the repository and the handle's agent operations, called by       *)
(* concurrent callers on a collection that starts empty.                   *)
(***************************************************************************)
Init ==
    /\ now = 0
    /\ docs = NoAgents
    /\ hooks = [metadata |-> "none", feedback |-> "none", pending |-> 0]
    /\ h = Idle
    /\ pre = NoAgents
    /\ pc = [c \in Callers |-> IdlePc]
    /\ pool = PoolInit
    /\ tpc = [t \in Threads |-> IdleT]
    /\ InitFactories
    /\ InitViewer
    /\ InitCalls
    /\ InitLaw

StoreNext(apps, pwds, mids) ==
    \/ \E c \in Callers, sid \in StoreSessions, app \in apps : ConstructRead(c, sid, app)
    \/ \E c \in Callers, pwd \in pwds : ConstructCreate(c, pwd)
    \/ \E c \in Callers, sid \in StoreSessions, aid \in Agents : CreateAgent(c, sid, aid, 1)
    \/ \E c \in Callers, sid \in StoreSessions, aid \in Agents, mode \in {"sync0", "sync1"} :
          UpdateAgentRead(c, sid, aid, 2, mode)
    \/ \E c \in Callers : UpdateAgentWrite(c)
    \/ \E c \in Callers : MetricsFind(c)
    \/ \E c \in Callers : MetricsWrite(c)
    \/ \E c \in Callers : Capture(c, 1, 1)
    \/ \E c \in Callers, sid \in StoreSessions, aid \in Agents, mid \in mids :
          CreateMessage(c, sid, aid, mid)
    \/ \E c \in Callers, sid \in StoreSessions, aid \in Agents, mid \in mids :
          UpdateMessageFind(c, sid, aid, mid)
    \/ \E c \in Callers : UpdateMessageWrite(c)
    \/ \E c \in Callers : Fail(c)

Next == StoreNext({"app1"}, {"pw1"}, MsgIds) \/ Tick

Spec == Init /\ [][Next]_vars

(***************************************************************************)
(* SpecSession: the same callers and operations with handles constructed   *)
(* for different application names and with different generated passwords; *)
(* the clock stands still.                                                 *)
(***************************************************************************)
NextSession ==
    \/ StoreNext(Apps, Passwords, {1})
    \/ \E c \in Callers, sid \in StoreSessions : UpdateMetadata(c, sid, [p \in {<<"k1">>} |-> "v1"])
    \/ \E c \in Callers, sid \in StoreSessions : DeleteMetadata(c, sid, {<<"k1">>})
    \/ \E c \in Callers, sid \in StoreSessions : AddFeedback(c, sid, "up")
    \/ \E c \in Callers : AddFeedbackWrite(c)

SpecSession == Init /\ [][NextSession]_vars

(***************************************************************************)
(* SpecAppend: callers appending to, updating and syncing the messages of  *)
(* one agent whose session and block exist.                                *)
(***************************************************************************)
InitAppend ==
    /\ now = 0
    /\ docs = create_agent(create_session(NoAgents, "s1", "app1", "pw1", {}, 0, 0),
                           "s1", "a1", 1, 0)
    /\ hooks = [metadata |-> "none", feedback |-> "none", pending |-> 0]
    /\ h = Idle
    /\ pre = NoAgents
    /\ pc = [c \in Callers |-> IdlePc]
    /\ pool = PoolInit
    /\ tpc = [t \in Threads |-> IdleT]
    /\ InitFactories
    /\ InitViewer
    /\ InitCalls
    /\ InitLaw

NextAppend ==
    \/ \E c \in Callers, mid \in MsgIds : CreateMessage(c, "s1", "a1", mid)
    \/ \E c \in Callers, mid \in MsgIds : UpdateMessageFind(c, "s1", "a1", mid)
    \/ \E c \in Callers : UpdateMessageWrite(c)
    \/ \E c \in Callers : UpdateAgentRead(c, "s1", "a1", 2, "sync1")
    \/ \E c \in Callers : UpdateAgentWrite(c)
    \/ \E c \in Callers : MetricsFind(c)
    \/ \E c \in Callers : MetricsWrite(c)
    \/ \E c \in Callers : Capture(c, 1, 1)
    \/ \E c \in Callers : Fail(c)
    \/ Tick

SpecAppend == InitAppend /\ [][NextAppend]_vars

(***************************************************************************)
(* SpecClock: handles being constructed and feedback being added through   *)
(* the repository while the clock advances.                                *)
(***************************************************************************)
NextClock ==
    \/ \E c \in Callers, sid \in StoreSessions : ConstructRead(c, sid, "app1")
    \/ \E c \in Callers : ConstructCreate(c, "pw1")
    \/ \E c \in Callers, sid \in StoreSessions, r \in Ratings : AddFeedback(c, sid, r)
    \/ \E c \in Callers : AddFeedbackWrite(c)
    \/ \E c \in Callers, sid \in StoreSessions, aid \in Agents : CreateAgent(c, sid, aid, 1)
    \/ \E c \in Callers : Fail(c)
    \/ Tick

SpecClock == Init /\ [][NextClock]_vars

(***************************************************************************)
(* SpecPoolSeq: one thread calling the pool.  SpecPool: two threads.       *)
(***************************************************************************)
NextPoolSeq == PoolStep("t1")

SpecPoolSeq == Init /\ [][NextPoolSeq]_vars

NextPool == \E t \in Threads : PoolStep(t)

SpecPool == Init /\ [][NextPool]_vars

(***************************************************************************)
(* SpecConfig: a handle on session s1 creating agents and messages and     *)
(* updating the model and system prompt of an agent, while the clock       *)
(* advances.                                                               *)
(***************************************************************************)
(* SpecOrder: callers appending messages to one agent, each stamping its   *)
(* message before it sends the write, and updating messages, while the     *)
(* clock advances.                                                         *)
(***************************************************************************)
NextOrder ==
    \/ \E c \in Callers, mid \in MsgIds : CreateMessageStamp(c, "s1", "a1", mid)
    \/ \E c \in Callers : CreateMessagePush(c)
    \/ \E c \in Callers, mid \in MsgIds : UpdateMessageFind(c, "s1", "a1", mid)
    \/ \E c \in Callers : UpdateMessageWrite(c)
    \/ \E c \in Callers : Fail(c)
    \/ Tick

SpecOrder == InitAppend /\ [][NextOrder]_vars

(***************************************************************************)
(* SpecList: SpecOrder, and at any point one call of list_messages, which  *)
(* is followed no further.                                                 *)
(***************************************************************************)
Limits == {NoLimit, 0, 1, 2}
Offsets == {0, 1, 2}

NextList ==
    /\ out = NoOut
    /\ \/ NextOrder
       \/ \E c \in Callers, limit \in Limits, offset \in Offsets :
             ListMessages(c, "s1", "a1", limit, offset)

SpecList == InitAppend /\ [][NextList]_vars

(***************************************************************************)
(* SpecEnum: the viewer started on a collection of three sessions, with    *)
(* some ceiling configured, answering one metadata-fields request.         *)
(***************************************************************************)
EnumSessions == {"s1", "s2", "s3"}
Ceilings == {0, 1, 2}

InitEnum ==
    /\ now = 0
    /\ docs \in {[sid \in EnumSessions |-> ViewerDoc(sid, "pw1", val[sid])] :
                    val \in [EnumSessions -> EnumValues \cup {Absent}]}
    /\ hooks = [metadata |-> "none", feedback |-> "none", pending |-> 0]
    /\ h = Idle
    /\ pre = NoAgents
    /\ pc = [c \in Callers |-> IdlePc]
    /\ pool = PoolInit
    /\ tpc = [t \in Threads |-> IdleT]
    /\ InitFactories
    /\ InitViewer
    /\ InitCalls
    /\ InitLaw

NextEnum == \E eligible \in BOOLEAN, max_values \in Ceilings :
                ListMetadataFields(eligible, max_values)

SpecEnum == InitEnum /\ [][NextEnum]_vars

(***************************************************************************)
ConfigAgents == {"a1", "a2"}
ConfigModels == {0, 1, 2}
ConfigPrompts == {0, 1}

NextConfig ==
    \/ ConstructRead("c1", "s1", "app1")
    \/ ConstructCreate("c1", "pw1")
    \/ \E aid \in ConfigAgents : CreateAgent("c1", "s1", aid, 1)
    \/ CreateMessage("c1", "s1", "a1", 1)
    \/ \E aid \in ConfigAgents, model \in ConfigModels, prompt \in ConfigPrompts :
          UpdateAgentConfig("c1", "s1", aid, model, prompt)
    \/ Tick

SpecConfig == Init /\ [][NextConfig]_vars

(***************************************************************************)
(* SpecOwner: one thread constructing and closing factories, repositories  *)
(* and session handles.  SpecCreate: the overrides of create_session_      *)
(* manager.  SpecGlobal: two threads calling initialize_global_factory.    *)
(***************************************************************************)
NextOwner ==
    \/ \E cs \in ConnStrings : FactoryInitCall("t1", cs, "kwA", IdleF.cfg)
    \/ FactoryInitReturn("t1")
    \/ \E ref \in ClientRefs : FactoryInitBorrow("t1", ref, IdleF.cfg)
    \/ \E f \in 1..MaxObjects : FactoryCloseCall("t1", f)
    \/ FactoryCloseReturn("t1")
    \/ HostClient("t1")
    \/ ComponentInitOwn("t1")
    \/ \E ref \in ClientRefs : ComponentInitBorrow("t1", ref)
    \/ \E i \in 1..MaxObjects, via \in {"repository", "handle"} : ComponentClose("t1", i, via)
    \/ PoolInside("t1")

SpecOwner == Init /\ [][NextOwner]_vars

NextCreate ==
    \/ HostClient("t1")
    \/ \E ref \in ClientRefs, cfg \in FactoryCfgs : FactoryInitBorrow("t1", ref, cfg)
    \/ \E f \in 1..MaxObjects, o \in Overrides : CreateSessionManager("t1", f, o)

SpecCreate == Init /\ [][NextCreate]_vars

NextGlobal ==
    \E t \in Threads :
        \/ \E cs \in ConnStrings : InitializeGlobalCall(t, cs, "kwA", IdleF.cfg)
        \/ GlobalCheck(t)
        \/ GlobalCloseOld(t)
        \/ FactoryCloseReturn(t)
        \/ GlobalConstruct(t)
        \/ FactoryInitReturn(t)
        \/ GlobalAssign(t)
        \/ PoolInside(t)

SpecGlobal == Init /\ [][NextGlobal]_vars

(***************************************************************************)
(* SpecViewer: requests to the session viewer over a collection that does  *)
(* not change.                                                             *)
(***************************************************************************)
InitViewerSpec ==
    /\ now = 0
    /\ docs \in ViewerCollections
    /\ hooks = [metadata |-> "none", feedback |-> "none", pending |-> 0]
    /\ h = Idle
    /\ pre = NoAgents
    /\ pc = [c \in Callers |-> IdlePc]
    /\ pool = PoolInit
    /\ tpc = [t \in Threads |-> IdleT]
    /\ InitFactories
    /\ InitViewer
    /\ InitCalls
    /\ InitLaw

NextViewer ==
    \/ \E r \in SearchRequests : HandleRequest(r)
    \/ \E r \in OtherRequests : HandleRequest(r)

SpecViewer == InitViewerSpec /\ [][NextViewer]_vars

(***************************************************************************)
(* SpecLaw: two metadata calls in a row on a session created with or       *)
(* without pre-seeded fields.                                              *)
(***************************************************************************)
InitLawSpec ==
    /\ now = 0
    /\ \E fields \in {{}, {"k2"}} :
          /\ docs = create_session(NoAgents, "s1", "app1", "pw1", fields, 0, 0)
          /\ law = [NoLaw EXCEPT !.seeded = fields]
    /\ hooks = [metadata |-> "none", feedback |-> "none", pending |-> 0]
    /\ h = Idle
    /\ pre = NoAgents
    /\ pc = [c \in Callers |-> IdlePc]
    /\ pool = PoolInit
    /\ tpc = [t \in Threads |-> IdleT]
    /\ InitFactories
    /\ InitViewer
    /\ InitCalls

NextLaw ==
    \/ \E M \in Mappings : LawPriorUpdate(M)
    \/ \E K \in KeyLists : LawPriorDelete(K)
    \/ \E M \in Mappings : LawFirstUpdate(M)
    \/ \E M \in Mappings : LawSecondUpdate(M)
    \/ LawSecondDelete

SpecLaw == InitLawSpec /\ [][NextLaw]_vars

(***************************************************************************)
(* SpecTool: an agent invoking the metadata tool of a handle on session s1 *)
(* any number of times.                                                    *)
(***************************************************************************)
NextTool ==
    \E action \in ToolActions, metadata \in ToolArgs(ToolMappings, NoDict),
       keys \in ToolArgs(ToolKeyLists, NoKeys) :
        ManageMetadata(action, metadata, keys)

SpecTool == InitLawSpec /\ [][NextTool]_vars

(***************************************************************************)
(* SpecCache: threads calling put, get, invalidate and clear on one        *)
(* SessionMetadataCache, built with any capacity and time to live, while   *)
(* time passes.                                                            *)
(***************************************************************************)
CacheTtls == {0, 1}

InitCache ==
    /\ now = 0
    /\ docs = NoAgents
    /\ hooks = [metadata |-> "none", feedback |-> "none", pending |-> 0]
    /\ h = Idle
    /\ pre = NoAgents
    /\ pc = [c \in Callers |-> IdlePc]
    /\ pool = PoolInit
    /\ tpc = [t \in Threads |-> IdleT]
    /\ InitFactories
    /\ InitViewer
    /\ out = NoOut
    /\ cache \in {[max_size |-> m, ttl_seconds |-> ttl, entries |-> <<>>, uses |-> <<>>] :
                     m \in 0..MaxSize, ttl \in CacheTtls}
    /\ InitLaw

NextCache ==
    \/ \E key \in CacheKeys, value \in CacheValues : CachePut(key, value)
    \/ \E key \in CacheKeys : CacheGet(key)
    \/ \E key \in CacheKeys : CacheInvalidate(key)
    \/ CacheClear
    \/ Tick

SpecCache == InitCache /\ [][NextCache]_vars

(***************************************************************************)
(* Properties.                                                             *)
(***************************************************************************)
HDoc == docs[HandleSession]
HPre == pre[HandleSession]
HookDone == h.phase = "done"

FrameOutsideMetadata ==
    [HDoc EXCEPT !.metadata = HPre.metadata, !.updated_at = HPre.updated_at] = HPre

UpdateDone == HookDone /\ h.op = "update" /\ h.wrote = "ok"
DeleteDone == HookDone /\ h.op = "delete" /\ h.wrote = "ok"

C5_CreationFieldsNeverRewritten ==
    [][\A sid \in DOMAIN docs :
          /\ sid \in DOMAIN docs'
          /\ docs'[sid].application_name = docs[sid].application_name
          /\ docs'[sid].session_viewer_password = docs[sid].session_viewer_password]_vars

\* A second handle, for another application name, is about to insert a
\* document for a session that was created and written to meanwhile.
C5_Witness ==
    \E c \in Callers :
        /\ pc[c].op = "construct"
        /\ Exists(docs, pc[c].sid)
        /\ pc[c].app # docs[pc[c].sid].application_name
        /\ HasAgent(docs, pc[c].sid, "a1")
        /\ Len(docs[pc[c].sid].feedbacks) > 0

Msgs(d, sid, aid) == BlockOf(d, sid, aid).messages

\* C6, as stated: no step removes a session document, an agent block, a
\* message entry (an entry with that message_id stays in the agent's
\* sequence) or a feedback entry.
C6_NothingStoredIsRemoved ==
    [][\A sid \in DOMAIN docs :
          /\ sid \in DOMAIN docs'
          /\ \A aid \in DOMAIN docs[sid].agents :
                /\ aid \in DOMAIN docs'[sid].agents
                /\ \A i \in 1..Len(Msgs(docs, sid, aid)) :
                      Msgs(docs, sid, aid)[i].kind = "msg" =>
                          \E j \in 1..Len(Msgs(docs', sid, aid)) :
                              /\ Msgs(docs', sid, aid)[j].kind = "msg"
                              /\ Msgs(docs', sid, aid)[j].message_id =
                                     Msgs(docs, sid, aid)[i].message_id
          /\ Len(docs'[sid].feedbacks) >= Len(docs[sid].feedbacks)
          /\ SubSeq(docs'[sid].feedbacks, 1, Len(docs[sid].feedbacks)) = docs[sid].feedbacks]_vars

\* The update_one of caller c's update_message happens in this step.
UpdateMessageWrites(c) ==
    /\ pc[c].op = "update_message"
    /\ pc'[c].op = "idle"
    /\ docs' # docs

\* C7, as stated: the update_one of update_message(m) leaves every entry
\* whose message_id is not m.message_id as it was.
C7_UpdateTouchesOnlyItsMessage ==
    [][\A c \in Callers :
          UpdateMessageWrites(c) =>
              \A j \in 1..Len(Msgs(docs, pc[c].sid, pc[c].aid)) :
                  (/\ Msgs(docs, pc[c].sid, pc[c].aid)[j].kind = "msg"
                   /\ Msgs(docs, pc[c].sid, pc[c].aid)[j].message_id # pc[c].mid) =>
                      /\ j <= Len(Msgs(docs', pc[c].sid, pc[c].aid))
                      /\ Msgs(docs', pc[c].sid, pc[c].aid)[j] =
                             Msgs(docs, pc[c].sid, pc[c].aid)[j]]_vars

\* C8: every create_message step appends its one message at the end of the
\* agent's sequence and leaves every entry stored before it in place and
\* unchanged, whatever the other callers are in the middle of.
C8_CreateMessageAppendsOnce ==
    [][\A c \in Callers, mid \in MsgIds :
          CreateMessage(c, "s1", "a1", mid) =>
              /\ Len(Msgs(docs', "s1", "a1")) = Len(Msgs(docs, "s1", "a1")) + 1
              /\ SubSeq(Msgs(docs', "s1", "a1"), 1, Len(Msgs(docs, "s1", "a1"))) =
                     Msgs(docs, "s1", "a1")
              /\ Msgs(docs', "s1", "a1")[Len(Msgs(docs', "s1", "a1"))] =
                     Entry(mid, "c", now, now, 0)]_vars

\* Two messages appended one after the other are both stored, in append
\* order, while the other caller is between the find and the write of an
\* update_message.
C8_Witness ==
    /\ Len(Msgs(docs, "s1", "a1")) = 2
    /\ Msgs(docs, "s1", "a1")[1].message_id = 1
    /\ Msgs(docs, "s1", "a1")[2].message_id = 2
    /\ Msgs(docs, "s1", "a1")[2].created_at > Msgs(docs, "s1", "a1")[1].created_at
    /\ \E c \in Callers : pc[c].op = "update_message"

\* C9, as stated: when update_message replaces the content of an entry
\* that carries the event_loop_metrics another caller, still inside its
\* sync_agent, has just written, the entry holds both afterwards.
C9_BothUpdatesKept ==
    [][\A c \in Callers :
          (/\ UpdateMessageWrites(c)
           /\ \E o \in Callers \ {c} : pc[o].op = "capture" /\ pc[o].mid = pc[c].mid
           /\ pc[c].idx <= Len(Msgs(docs, pc[c].sid, pc[c].aid))
           /\ Msgs(docs, pc[c].sid, pc[c].aid)[pc[c].idx].message_id = pc[c].mid
           /\ Msgs(docs, pc[c].sid, pc[c].aid)[pc[c].idx].elm = 1) =>
              /\ Msgs(docs', pc[c].sid, pc[c].aid)[pc[c].idx].content = "r"
              /\ Msgs(docs', pc[c].sid, pc[c].aid)[pc[c].idx].elm = 1]_vars

\* The update_one of caller c's update_agent happens in this step.
UpdateAgentWrites(c) ==
    /\ pc[c].op = "update_agent"
    /\ pc'[c].op \in {"metrics_find", "capture"}

\* C10, as stated: the update_one of update_agent leaves the created_at of
\* an agent block that has one, and its messages, as they were.
C10_UpdateAgentKeepsCreatedAt ==
    [][\A c \in Callers :
          (/\ UpdateAgentWrites(c)
           /\ HasAgent(docs, pc[c].sid, pc[c].aid)
           /\ BlockOf(docs, pc[c].sid, pc[c].aid).created_at # NoTime) =>
              /\ BlockOf(docs', pc[c].sid, pc[c].aid).created_at =
                     BlockOf(docs, pc[c].sid, pc[c].aid).created_at
              /\ BlockOf(docs', pc[c].sid, pc[c].aid).messages =
                     BlockOf(docs, pc[c].sid, pc[c].aid).messages]_vars

\* C11, as stated: no two entries of one agent's messages sequence have the
\* same message_id.
C11_MessageIdsUnique ==
    \A sid \in DOMAIN docs : \A aid \in DOMAIN docs[sid].agents :
        \A i \in 1..Len(Msgs(docs, sid, aid)), j \in 1..Len(Msgs(docs, sid, aid)) :
            (/\ i # j
             /\ Msgs(docs, sid, aid)[i].kind = "msg"
             /\ Msgs(docs, sid, aid)[j].kind = "msg") =>
                Msgs(docs, sid, aid)[i].message_id # Msgs(docs, sid, aid)[j].message_id

\* C12, as stated: created_at <= updated_at for every session document.
C12_CreatedBeforeUpdated ==
    \A sid \in DOMAIN docs : docs[sid].created_at <= docs[sid].updated_at

\* C13, as stated: a successful metadata update or delete through the
\* handle sets the session's updated_at to the time of the write.
C13_MetadataWriteBumpsUpdatedAt ==
    (UpdateDone \/ DeleteDone) => HDoc.updated_at = h.t

\* What each repository write does to a collection that has no document
\* for sid.
OnMissing(d, sid, op) ==
    CASE op = "create_agent"    -> create_agent(d, sid, "a1", 1, now)
      [] op = "update_agent"    -> update_agent_write(d, sid, "a1", 2, now, now)
      [] op = "create_message"  -> create_message(d, sid, "a1", 1, "c", now)
      [] op = "update_message"  -> update_message_write(d, sid, "a1", 1, Entry(1, "r", now, now, 0), now)
      [] op = "update_metadata" -> update_metadata(d, sid, [p \in {<<"k1">>} |-> "v1"])
      [] op = "delete_metadata" -> delete_metadata(d, sid, {<<"k1">>})
      [] OTHER                  -> add_feedback(d, sid, "up", now)

\* C14, as stated: every repository write called with a session_id that has
\* no document raises a not-found error and leaves the collection as it was.
C14_MissingSessionRaises ==
    \A sid \in {"s1", "s2"} \ DOMAIN docs : \A op \in RepoWrites :
        /\ RaisesNotFound(docs, sid, op)
        /\ OnMissing(docs, sid, op) = docs

\* C15: create_session for a session_id whose document exists raises the
\* duplicate-key error and leaves the collection, the existing document
\* included, exactly as it was.
C15_CreateExistingConflicts ==
    [][\A c \in Callers, pwd \in Passwords :
          (ConstructCreate(c, pwd) /\ Exists(docs, pc[c].sid)) =>
              /\ docs' = docs
              /\ pc'[c].op = "conflict"]_vars

\* A create_session has failed on a session that another handle created
\* under another application name and that already holds an agent with a
\* message, metadata and a feedback.
C15_Witness ==
    \E c \in Callers :
        /\ pc[c].op = "conflict"
        /\ Exists(docs, pc[c].sid)
        /\ docs[pc[c].sid].application_name # pc[c].app
        /\ Len(Msgs(docs, pc[c].sid, "a1")) > 0
        /\ docs[pc[c].sid].metadata["k1"].t = "scalar"
        /\ Len(docs[pc[c].sid].feedbacks) > 0

\* The update_one of caller c's _update_last_message_metrics happens in
\* this step.
MetricsWrites(c) ==
    /\ pc[c].op = "metrics_write"
    /\ pc'[c].op = "capture"

\* C16, as stated: the metrics of sync_agent go to the entry that is last
\* among those with the message_id read from the end of the sequence, and no
\* other entry changes.
C16_MetricsOnLastMessageOnly ==
    [][\A c \in Callers :
          MetricsWrites(c) =>
              \A j \in 1..Len(Msgs(docs, pc[c].sid, pc[c].aid)) :
                  Msgs(docs', pc[c].sid, pc[c].aid)[j] # Msgs(docs, pc[c].sid, pc[c].aid)[j] =>
                      /\ Msgs(docs, pc[c].sid, pc[c].aid)[j].message_id = pc[c].mid
                      /\ \A k \in (j + 1)..Len(Msgs(docs, pc[c].sid, pc[c].aid)) :
                             Msgs(docs, pc[c].sid, pc[c].aid)[k].message_id # pc[c].mid]_vars

ElmOf(msgs) == [j \in 1..Len(msgs) |-> msgs[j].elm]

\* C17: a sync_agent without latency (mode "sync0") never enters
\* _update_last_message_metrics, none of its steps changes the
\* event_loop_metrics of any message, and its _capture_agent_config stores
\* the agent's model and system prompt in agent_data.
C17_SyncWithoutLatency ==
    [][\A c \in Callers :
          pc[c].mode = "sync0" =>
              /\ pc'[c].op \notin {"metrics_find", "metrics_write"}
              /\ pc'[c] # pc[c] =>
                     ElmOf(Msgs(docs', pc[c].sid, pc[c].aid)) =
                         ElmOf(Msgs(docs, pc[c].sid, pc[c].aid))
              /\ Capture(c, 1, 1) =>
                     /\ BlockOf(docs', pc[c].sid, pc[c].aid).agent_data.model = 1
                     /\ BlockOf(docs', pc[c].sid, pc[c].aid).agent_data.system_prompt = 1]_vars

\* A sync_agent without latency has stored the agent state over an agent
\* that holds a message, skipped the metrics, and is about to capture.
C17_Witness ==
    \E c \in Callers :
        /\ pc[c].op = "capture"
        /\ pc[c].mode = "sync0"
        /\ Len(Msgs(docs, pc[c].sid, pc[c].aid)) > 0
        /\ \A j \in 1..Len(Msgs(docs, pc[c].sid, pc[c].aid)) :
               Msgs(docs, pc[c].sid, pc[c].aid)[j].elm = 0
        /\ BlockOf(docs, pc[c].sid, pc[c].aid).agent_data = AgentData(2)

Initialized(t) ==
    tpc[t].op = "initialize" /\ tpc[t].at = "idle" /\ tpc[t].outcome = "ok"

\* The client the pool held when the call started was created with the
\* parameters of the call.
HeldMatches(t) ==
    /\ tpc[t].held0 # 0
    /\ pool.clients[tpc[t].held0].cs = tpc[t].cs
    /\ pool.clients[tpc[t].held0].kw = tpc[t].kw

\* C19: a call of initialize that returns a client returns the one the
\* pool held, and creates none, exactly when that client was created with
\* the same connection string and options; otherwise the client it held
\* (if any) is closed and a new open client with the parameters of the call
\* is created, installed and returned.
C19_InitializeReusesOrReplaces ==
    Initialized("t1") =>
        IF HeldMatches("t1")
        THEN /\ tpc["t1"].ret = tpc["t1"].held0
             /\ pool.client = tpc["t1"].held0
             /\ Len(pool.clients) = tpc["t1"].made0
             /\ ~pool.clients[tpc["t1"].held0].closed
        ELSE /\ tpc["t1"].held0 # 0 => pool.clients[tpc["t1"].held0].closed
             /\ Len(pool.clients) = tpc["t1"].made0 + 1
             /\ tpc["t1"].ret = Len(pool.clients)
             /\ pool.client = tpc["t1"].ret
             /\ pool.clients[tpc["t1"].ret] = NewClient(tpc["t1"].cs, tpc["t1"].kw)

\* initialize has returned a new client after closing one that was created
\* with the same connection string and other options.
C19_Witness ==
    /\ Initialized("t1")
    /\ tpc["t1"].held0 # 0
    /\ pool.clients[tpc["t1"].held0].cs = tpc["t1"].cs
    /\ pool.clients[tpc["t1"].held0].kw # tpc["t1"].kw
    /\ pool.clients[tpc["t1"].held0].closed
    /\ tpc["t1"].ret = pool.client
    /\ tpc["t1"].ret # tpc["t1"].held0

\* C20, as stated: in every step of concurrent pool calls the pool has at
\* most one instance, every client it created and does not hold is closed
\* (as long as the server has answered every ping), and a client handed out
\* by initialize or get_client is not closed.
C20_PoolSafeUnderConcurrency ==
    [][/\ pool'.instances <= 1
       /\ ~pool'.raised =>
              \A i \in 1..Len(pool'.clients) :
                  i # pool'.client => pool'.clients[i].closed
       /\ \A t \in Threads :
              (/\ tpc[t].at # "idle" /\ tpc'[t].at = "idle"
               /\ tpc'[t].op \in {"initialize", "get_client"}
               /\ tpc'[t].outcome = "ok" /\ tpc'[t].ret # 0) =>
                  ~pool'.clients[tpc'[t].ret].closed]_vars

\* Factory g is in use: close() has not been called on it.
InUse(g) == ~factories[g].closed

\* C21, as stated: the pooled client is closed only when every factory that
\* obtained it from the pool has released it: a step of Factory.close()
\* never closes a client that another owning factory holds while that
\* factory is still in use.
C21_ClientOpenUntilLastRelease ==
    [][\A t \in Threads, i \in 1..Len(pool.clients) :
          (/\ fpc[t].at = "f_closing"
           /\ ~pool.clients[i].closed
           /\ pool'.clients[i].closed) =>
              ~\E g \in 1..Len(factories) :
                   /\ g # fpc[t].f
                   /\ factories[g].owns
                   /\ factories[g].client = PoolRef(i)
                   /\ InUse(g)]_vars

\* C22: close() on a repository or session handle closes its client when
\* it owns it and closes nothing when the client was passed in; close() on
\* a factory that borrows its client closes nothing and makes no pool call,
\* and when close() of an owning factory returns its client is closed.
C22_CloseClosesIffOwned ==
    [][/\ \A i \in 1..Len(comps) :
             (~comps[i].closed /\ comps'[i].closed) =>
                 /\ pool' = pool
                 /\ IF comps[i].owns
                    THEN /\ IsClosed(comps[i].client)'
                         /\ \A j \in 1..Len(heap) :
                               HeapRef(j) # comps[i].client => heap'[j] = heap[j]
                    ELSE heap' = heap
       /\ \A f \in 1..Len(factories) :
             /\ (~factories[f].closed /\ factories'[f].closed /\ ~factories[f].owns) =>
                    pool' = pool /\ heap' = heap /\ tpc' = tpc
             /\ (fpc["t1"].at = "f_closing" /\ fpc["t1"].f = f /\ fpc'["t1"].at = "idle") =>
                    factories[f].owns /\ IsClosed(factories[f].client)']_vars

\* A repository that owns its client has been closed and the client is
\* closed; another, given the host's client, has been closed and that
\* client is open.
C22_Witness ==
    /\ Len(comps) = 2
    /\ comps[1].owns /\ comps[1].closed /\ IsClosed(comps[1].client)
    /\ ~comps[2].owns /\ comps[2].closed /\ ~IsClosed(comps[2].client)
    /\ comps[2].client # comps[1].client

\* No thread is inside initialize_global_factory.
GlobalQuiet == \A t \in Threads : fpc[t].at = "idle"

\* C23, as stated: whenever the calls of initialize_global_factory made so
\* far have all returned, one of the factories they created is installed
\* as the global factory and every other one has been closed.
C23_OneGlobalFactoryOthersClosed ==
    (GlobalQuiet /\ Len(factories) > 0) =>
        /\ global_factory \in 1..Len(factories)
        /\ \A f \in 1..Len(factories) : f # global_factory => factories[f].closed

\* C24, as stated: a handle made by create_session_manager has, for each
\* of database, collection, metadata_fields and application_name, the
\* factory's default exactly when the override is None, and any other
\* override verbatim.
C24_NoneOverrideMeansDefault ==
    \A c \in 1..Len(comps) :
        comps[c].maker # 0 =>
            LET made == factories[comps[c].maker]
                o == comps[c].given
            IN /\ comps[c].database_name =
                     IF o.database_name = "None" THEN made.database_name ELSE o.database_name
               /\ comps[c].collection_name =
                     IF o.collection_name = "None" THEN made.collection_name
                     ELSE o.collection_name
               /\ comps[c].metadata_fields =
                     IF o.metadata_fields = "None" THEN made.metadata_fields
                     ELSE o.metadata_fields
               /\ comps[c].application_name =
                     IF o.application_name = "None" THEN made.args_application_name
                     ELSE o.application_name

\* The viewer has answered a request.
Answered == resp # NoResponse

\* C25, as stated: a request with X-Session-Password and without the valid
\* X-Password is answered with data only by the detail endpoint, for a
\* session that has a password whose digest is the header; search,
\* metadata-fields and the detail of any other session are rejected.
C25_SessionPasswordOpensOnlyItsSession ==
    (/\ Answered
     /\ req.xspw # NoHeader
     /\ req.xpw # Sha256(BackendPassword)
     /\ req.endpoint \in {"search", "detail", "metadata_fields"}
     /\ resp.status = 200) =>
        /\ req.endpoint = "detail"
        /\ HasPassword(docs, req.sid)
        /\ req.xspw = Sha256(docs[req.sid].session_viewer_password)

\* C26, as stated: for a session that has a session_viewer_password the
\* check reports valid exactly when the digest presented is the digest of
\* that password, and used_global is reported only for a session without
\* one; the detail endpoint admits a per-session digest on the same terms.
C26_GlobalFallbackOnlyForLegacy ==
    /\ (Answered /\ req.endpoint = "session_check" /\ req.hash # NoHeader
            /\ Exists(docs, req.sid)) =>
           /\ resp.used_global => ~HasPassword(docs, req.sid)
           /\ HasPassword(docs, req.sid) =>
                 (resp.valid <=> req.hash = Sha256(docs[req.sid].session_viewer_password))
    /\ (Answered /\ req.endpoint = "detail" /\ req.xspw # NoHeader
            /\ HasPassword(docs, req.sid) /\ resp.status = 200) =>
           req.xspw = Sha256(docs[req.sid].session_viewer_password)

\* The text contains the value as a substring, letters compared without
\* regard to case.
ContainsLiteral(val, text) ==
    \E i \in 1..(Len(text) - Len(val) + 1) :
        \A j \in 1..Len(val) : Lower(val[j]) = Lower(text[i + j - 1])

\* C27, as stated: a search returns exactly the sessions whose session_id
\* contains the session_id value, and whose metadata.k1 contains the
\* filter value, as a case-insensitive literal substring.
C27_FiltersMatchLiterally ==
    (Answered /\ req.endpoint = "search" /\ resp.status = 200) =>
        resp.sessions =
            {sid \in DOMAIN docs :
                /\ req.filters.session_id # <<>> =>
                      ContainsLiteral(req.filters.session_id, CharsOf(docs[sid].session_id))
                /\ req.filters.meta.on =>
                      /\ docs[sid].metadata["k1"].t = "scalar"
                      /\ ContainsLiteral(req.filters.meta.v,
                                         CharsOf(docs[sid].metadata["k1"].v))}

\* What get_metadata gives under a dotted path: the scalar stored there,
\* "doc" for an embedded document, Absent when nothing is stored there.
ReadPath(meta, p) ==
    IF Len(p) = 1
    THEN CASE meta[p[1]].t = "scalar" -> meta[p[1]].v
           [] meta[p[1]].t = "doc" -> "doc"
           [] OTHER -> Absent
    ELSE IF meta[p[1]].t = "doc" THEN meta[p[1]].sub[p[2]] ELSE Absent

\* M1 (+) M2: the keys of both, M2's value where both have the key.
Merge(M1, M2) ==
    [p \in DOMAIN M1 \cup DOMAIN M2 |-> IF p \in DOMAIN M2 THEN M2[p] ELSE M1[p]]

\* The metadata is the mapping laid over the prior metadata: every key of
\* the mapping holds the mapping's value, every other key what it held.
LaidOver(meta, prior, M) ==
    /\ \A p \in DOMAIN M : ReadPath(meta, p) = M[p]
    /\ \A p \in Paths \ DOMAIN M :
          (\A q \in DOMAIN M : q[1] # p[1]) => ReadPath(meta, p) = ReadPath(prior, p)

TwoUpdatesDone == law.step = 2 /\ law.kind = "update"
UpdateDeleteDone == law.step = 2 /\ law.kind = "delete"

SeededPaths == {p \in Paths : p[1] \in law.seeded}

\* The path holds nothing, and setting it creates nothing but it: a dotted
\* path is fresh when its parent is an embedded document without it.
PathFresh(meta, p) ==
    IF Len(p) = 1 THEN meta[p[1]].t = "absent"
    ELSE meta[p[1]].t = "doc" /\ meta[p[1]].sub[p[2]] = Absent

\* C29, as stated: for M whose keys are not pre-seeded fields,
\* update_metadata(M); delete_metadata(keys(M)) leaves the metadata as it
\* was before the update.
C29_UpdateThenDeleteRestores ==
    (UpdateDeleteDone /\ DOMAIN law.M1 \cap SeededPaths = {}) =>
        get_metadata(docs, "s1") = law.m0

\* C29, amended: the same, for M whose keys hold nothing before the update
\* (a dotted key k.x: k holds an embedded document that has no x).
C29_UpdateThenDeleteRestoresFresh ==
    (UpdateDeleteDone /\ \A p \in DOMAIN law.M1 : PathFresh(law.m0, p)) =>
        get_metadata(docs, "s1") = law.m0

C29_Witness ==
    /\ UpdateDeleteDone
    /\ DOMAIN law.M1 = {<<"k1", "x">>, <<"k2">>}
    /\ \A p \in DOMAIN law.M1 : PathFresh(law.m0, p)
    /\ law.m0["k1"].t = "doc"
    /\ get_metadata(docs, "s1") = law.m0

\* C30: update_agent_config gives each supplied field the supplied value,
\* leaves an omitted field with its stored value, and changes nothing else
\* in the session document: not the agent's other fields, not another
\* agent, not a field of the session.
C30_UpdateConfigChangesOnlySupplied ==
    [][\A aid \in ConfigAgents, model \in ConfigModels, prompt \in ConfigPrompts :
          UpdateAgentConfig("c1", "s1", aid, model, prompt) =>
              /\ DOMAIN docs' = DOMAIN docs
              /\ \A sid \in DOMAIN docs :
                    LET old == BlockOf(docs, sid, aid)
                        new == BlockOf(docs', sid, aid)
                    IN /\ model # 0 => new.agent_data.model = model
                       /\ prompt # 0 => new.agent_data.system_prompt = prompt
                       /\ model = 0 => new.agent_data.model = old.agent_data.model
                       /\ prompt = 0 => new.agent_data.system_prompt = old.agent_data.system_prompt
                       /\ [new EXCEPT !.agent_data.model = old.agent_data.model,
                                      !.agent_data.system_prompt = old.agent_data.system_prompt]
                              = old
                       /\ \A a \in ConfigAgents \ {aid} :
                             /\ HasAgent(docs', sid, a) <=> HasAgent(docs, sid, a)
                             /\ BlockOf(docs', sid, a) = BlockOf(docs, sid, a)
                       /\ [docs'[sid] EXCEPT !.agents = docs[sid].agents] = docs[sid]
    ]_vars

C30_Witness ==
    /\ HasAgent(docs, "s1", "a1") /\ HasAgent(docs, "s1", "a2")
    /\ docs["s1"].agents["a1"].agent_data = [state |-> 1, model |-> 2, system_prompt |-> 1]
    /\ Len(docs["s1"].agents["a1"].messages) = 1
    /\ docs["s1"].agents["a2"].agent_data = [state |-> 1, model |-> 1, system_prompt |-> 0]
    /\ docs["s1"].updated_at < now

\* C31, as stated: update_agent_config for an agent_id that is not in the
\* session raises ValueError and leaves the session document unchanged.
C31_UpdateConfigMissingAgentRaises ==
    [][\A aid \in ConfigAgents, model \in ConfigModels, prompt \in ConfigPrompts :
          (/\ UpdateAgentConfig("c1", "s1", aid, model, prompt)
           /\ Exists(docs, "s1")
           /\ ~HasAgent(docs, "s1", aid)) =>
              /\ update_agent_config_outcome(docs, "s1", aid, model, prompt) = "ValueError"
              /\ docs' = docs
    ]_vars

IsPrefix(s, t) == Len(s) <= Len(t) /\ \A i \in 1..Len(s) : t[i] = s[i]

\* C32: what get_feedbacks returns is a prefix of what it returns at any
\* later time, and an add_feedback write puts its entry at the end: the
\* entries are listed in the order in which their writes were applied.
C32_FeedbacksAppendOnlyInOrder ==
    [][/\ \A sid \in StoreSessions :
             IsPrefix(get_feedbacks(docs, sid), get_feedbacks(docs', sid))
       /\ \A c \in Callers :
             (AddFeedbackWrite(c) /\ Exists(docs, pc[c].sid)) =>
                 get_feedbacks(docs', pc[c].sid) =
                     Append(get_feedbacks(docs, pc[c].sid),
                            FeedbackDoc(pc[c].rating, pc[c].cat))
    ]_vars

\* Two entries, the one written first built later than the one written
\* second.
C32_Witness ==
    /\ Len(get_feedbacks(docs, "s1")) = 2
    /\ get_feedbacks(docs, "s1")[1].rating # get_feedbacks(docs, "s1")[2].rating
    /\ get_feedbacks(docs, "s1")[1].created_at > get_feedbacks(docs, "s1")[2].created_at

\* C33, as stated: in every reachable state the stored messages of an agent
\* are in non-decreasing created_at order, concurrent appenders included.
C33_StoredMessagesInCreatedAtOrder ==
    \A sid \in DOMAIN docs : \A aid \in DOMAIN docs[sid].agents :
        LET msgs == docs[sid].agents[aid].messages
        IN \A i \in 1..Len(msgs), j \in 1..Len(msgs) :
              (i < j /\ msgs[i].kind = "msg" /\ msgs[j].kind = "msg") =>
                  msgs[i].created_at <= msgs[j].created_at

\* The sequences that hold the entries of msgs in ascending created_at
\* order.
AscendingOrders(msgs) ==
    {[i \in 1..Len(msgs) |-> msgs[f[i]]] :
        f \in {g \in [1..Len(msgs) -> 1..Len(msgs)] :
                 \A i \in 1..Len(msgs), j \in 1..Len(msgs) : i # j => g[i] # g[j]}}
    \cap {srt \in [1..Len(msgs) -> {msgs[i] : i \in 1..Len(msgs)}] :
             \A i \in 1..Len(msgs), j \in 1..Len(msgs) :
                 i < j => srt[i].created_at <= srt[j].created_at}

\* C34: list_messages returns the messages at the positions offset <= p <
\* offset + limit (offset <= p when limit is None), counted from 0, of the
\* agent's messages in ascending created_at order.
C34_ListMessagesPage ==
    out.op = "list_messages" =>
        \E srt \in AscendingOrders(out.stored) :
            LET pos == {p \in 0..(Len(srt) - 1) :
                          /\ out.offset <= p
                          /\ out.limit # NoLimit => p < out.offset + out.limit}
            IN /\ Len(out.result) = Cardinality(pos)
               /\ \A k \in 1..Len(out.result) :
                     out.result[k] = SessionMessage(srt[out.offset + k])

\* A page of one message taken from a stored sequence that is not in
\* created_at order.
C34_Witness ==
    /\ out.op = "list_messages"
    /\ Len(out.stored) = 2
    /\ out.stored[1].created_at > out.stored[2].created_at
    /\ out.offset = 1 /\ out.limit = 1
    /\ out.result = <<SessionMessage(out.stored[1])>>

\* C35, as stated: an enum-eligible field is reported with type enum and
\* its sorted distinct values exactly when the number of its distinct
\* values does not exceed the ceiling; otherwise it keeps its base type.
C35_EnumIffWithinCeiling ==
    (out.op = "metadata_fields" /\ out.eligible) =>
        LET values == distinct(docs)
        IN /\ (out.info.type = "enum") <=> (Cardinality(values) <= out.max_values)
           /\ out.info.type = "enum" =>
                 /\ ~out.info.values.none
                 /\ Len(out.info.values.list) = Cardinality(values)
                 /\ \A v \in values : \E i \in 1..Len(out.info.values.list) :
                       out.info.values.list[i] = v
                 /\ \A i \in 1..Len(out.info.values.list), j \in 1..Len(out.info.values.list) :
                       i < j => Rank(out.info.values.list[i]) < Rank(out.info.values.list[j])
           /\ out.info.type # "enum" => out.info.type = "string"

IsErrorString(str) ==
    str \in {"Error: must be a valid JSON", "Error: Unknown action",
             "Error: keys list required", "Error: metadata dictionary required",
             "Error managing metadata"}

\* C36: every invocation of the metadata tool returns a string and raises
\* nothing; with a metadata or keys string that is not JSON, with an
\* unknown action, or with delete and no keys, the string is an error and
\* the session is not written.
C36_ToolNeverRaises ==
    out.op = "manage_metadata" =>
        /\ out.returned # "raise"
        /\ (\/ out.metadata.kind = "garbage"
            \/ out.keys.kind = "garbage"
            \/ LowerAction(out.action) \notin {"get", "set", "update", "delete"}
            \/ LowerAction(out.action) = "delete" /\ EmptyList(out.keys)) =>
               /\ IsErrorString(out.returned)
               /\ docs = out.before

\* A call whose repository write was rejected, answered with a string.
C36_Witness ==
    /\ out.op = "manage_metadata"
    /\ out.action = "SET"
    /\ out.metadata = Arg("json", [p \in {<<"k1">>, <<"k1", "x">>} |-> "v2"])
    /\ out.returned = "Error managing metadata"
    /\ docs = out.before
    /\ docs["s1"].metadata["k1"].t = "scalar"

\* C37: after any sequence of put, get, invalidate and clear, from any
\* number of threads, the cache holds at most max_size entries.
C37_CacheWithinMaxSize ==
    Len(cache.entries) <= cache.max_size

\* A full cache after a put that had to evict.
C37_Witness ==
    /\ out.op = "put"
    /\ Len(out.before) = cache.max_size
    /\ out.key \notin CacheKeysOf(out.before)
    /\ Len(cache.entries) = cache.max_size
    /\ cache.max_size = MaxSize

\* C38: when a put makes the cache exceed max_size, exactly one entry is
\* evicted and it is the least recently used one, a put and a successful
\* get both counting as a use; a put that does not exceed max_size evicts
\* nothing.
C38_PutEvictsLeastRecentlyUsed ==
    out.op = "put" =>
        LET held == CacheKeysOf(out.before) \cup {out.key}
            order == Append(SelectSeq(out.uses, LAMBDA k : k # out.key), out.key)
            evicted == held \ CacheKeysOf(cache.entries)
        IN IF Cardinality(held) > cache.max_size
           THEN evicted = {Head(order)}
           ELSE evicted = {}

\* A put that evicts an entry younger than the one it keeps, which a get
\* had used since.
C38_Witness ==
    /\ out.op = "put"
    /\ Len(out.before) = 2
    /\ cache.max_size = 2
    /\ out.before[1].timestamp > out.before[2].timestamp
    /\ out.key \notin CacheKeysOf(out.before)
    /\ CacheKeysOf(cache.entries) = {out.before[2].key, out.key}

\* C39, as stated: a session's updated_at never decreases; after every
\* write, concurrent ones included, it is at least what it was before.
C39_UpdatedAtNeverDecreases ==
    [][\A sid \in DOMAIN docs \cap DOMAIN docs' :
           docs'[sid].updated_at >= docs[sid].updated_at]_vars

\* C40, as stated: every entry of a session's agents mapping is a complete
\* block, with agent_data, messages, created_at and updated_at; no
\* operation leaves a partial block for an agent create_agent never made.
C40_AgentBlocksComplete ==
    \A sid \in DOMAIN docs : \A aid \in DOMAIN docs[sid].agents :
        /\ docs[sid].agents[aid].agent_data.state # 0
        /\ docs[sid].agents[aid].has_messages
        /\ docs[sid].agents[aid].created_at # NoTime
        /\ docs[sid].agents[aid].updated_at # NoTime

====
